---- MODULE Spec2Model ----
(***************************************************************************)
(* The lexer of ncc (src/src/lex.rs) and the part of main (src/src/main.rs)*)
(* that drives it, as a state machine.                                     *)
(*                                                                         *)
(* The state is the Lex object (index, line, column, tokens), the byte     *)
(* buffer read from the file, the position of the program (pc), the local  *)
(* variables of the sub-scanner whose loop is running (frame), and what    *)
(* the process has written to stderr and stdout and its exit status.       *)
(* One action is one iteration of a loop of the code: Parse* are the       *)
(* iterations of the while loop of Lex::parse that a single-byte           *)
(* sub-scanner (or the skip path) finishes, or that enter a sub-scanner    *)
(* with a loop of its own; *Step are the iterations of those inner loops.  *)
(* Indices are 0-based as in the code; At and Slice convert.  Location.file *)
(* is the same for every token of a run and is kept in File.               *)
(*                                                                         *)
(* CmdLine::parse (src/src/cmdline.rs), which main runs on the arguments   *)
(* before the lexer, has a specification of its own, CmdSpec, with one     *)
(* action per iteration of its for loop; Spec starts where parse has       *)
(* returned with the file as the one positional argument.                  *)
(***************************************************************************)
EXTENDS Integers, Sequences, FiniteSets, TLC

\* ------------------------------------------------------------------ bounds
\* Length of the inputs drawn from the general alphabet.
MaxLen == 3
\* Length of the inputs of the string-literal family.
MaxStrLen == 6
\* Length of the inputs of the comment family.
MaxNoteLen == 5
\* Length of the inputs of the char-literal family.
MaxCharLen == 5
\* Length of the inputs of spaces and newlines.
MaxWsLen == 6
\* Length of the inputs of the identifier family.
MaxIdLen == 4
\* Length of the inputs of the number family.
MaxNumLen == 4

\* ------------------------------------------------------- bytes of the code
TAB == 9
LF == 10
SPACE == 32
DQUOTE == 34
SQUOTE == 39
STAR == 42
SLASH == 47
BACKSLASH == 92
UNDERSCORE == 95

\* ----------------------------------------------------------------- helpers
\* bytes[i] of the code (0-based).
At(b, i) == b[i + 1]

\* bytes[s..e] of the code (0-based, e exclusive).
Slice(b, s, e) == SubSeq(b, s + 1, e)

\* String::as_bytes: the UTF-8 encoding of a sequence of code points below
\* U+0800 (one byte below U+0080, two bytes otherwise).
RECURSIVE as_bytes(_)
as_bytes(s) ==
    IF s = <<>> THEN <<>>
    ELSE LET c == Head(s) IN
         (IF c < 128 THEN <<c>> ELSE <<192 + (c \div 64), 128 + (c % 64)>>)
             \o as_bytes(Tail(s))

\* String::from_utf8_lossy(..).to_string(), as bytes of the resulting String:
\* a well-formed one- or two-byte sequence is kept, any other byte becomes
\* U+FFFD (EF BF BD).
RECURSIVE from_utf8_lossy(_)
from_utf8_lossy(b) ==
    IF b = <<>> THEN <<>>
    ELSE LET c == Head(b) IN
         IF c < 128 THEN <<c>> \o from_utf8_lossy(Tail(b))
         ELSE IF /\ c >= 194 /\ c <= 223 /\ Len(b) >= 2
                 /\ b[2] >= 128 /\ b[2] <= 191
              THEN <<c, b[2]>> \o from_utf8_lossy(Tail(Tail(b)))
              ELSE <<239, 191, 189>> \o from_utf8_lossy(Tail(b))

\* Source with the slice one byte short.
SourceShort(b, s, e) == from_utf8_lossy(Slice(b, s, e - 1))

\* The lexeme of a token: String::from_utf8_lossy(&bytes[start..end]).
Source(b, s, e) == from_utf8_lossy(Slice(b, s, e))

\* char::is_ascii_punctuation
is_ascii_punctuation(c) ==
    \/ (c >= 33 /\ c <= 47)
    \/ (c >= 58 /\ c <= 64)
    \/ (c >= 91 /\ c <= 96)
    \/ (c >= 123 /\ c <= 126)

\* char::is_ascii_digit
is_ascii_digit(c) == c >= 48 /\ c <= 57

\* char::is_ascii
is_ascii(c) == c < 128

\* 'a'..='z' | 'A'..='Z' | '_'
IsIdentStart(c) ==
    \/ (c >= 97 /\ c <= 122)
    \/ (c >= 65 /\ c <= 90)
    \/ c = UNDERSCORE

\* ' ' | ';' | ',' | '\t' | '\n' | '\x0C' | '\r' | '!'..='/' | ':'..='@'
\* | '['..='`' | '{'..='~'
IsTerminator(c) ==
    \/ c \in {SPACE, 59, 44, TAB, LF, 12, 13}
    \/ is_ascii_punctuation(c)

\* A token: Location (line, column; the file is File), token_type, source.
Token(l, c, t, s) == [line |-> l, column |-> c, token_type |-> t, source |-> s]

\* The file name given to Lex::new: "a.c".
File == <<97, 46, 99>>

\* ------------------------------------------------------------------- state
VARIABLES
    bytes,      \* src.as_bytes()
    index,      \* Lex.index
    line,       \* Lex.line
    column,     \* Lex.column
    tokens,     \* Lex.tokens
    pc,         \* where the program is
    frame,      \* the locals of the running sub-scanner
    stderr,     \* the messages of eprintln!, each with the location it prints
    stdout,     \* the characters written by println!
    status,     \* the exit status, 0 while the process runs
    args,       \* the arguments given to CmdLine::parse
    argi,       \* the number of arguments the for loop of parse has taken
    get_valne,  \* the local get_valne of parse
    cmd_index,  \* the local index of parse
    cmd_args,   \* CmdLine.args
    others      \* CmdLine.others

\* The state of the lexer and of what it prints.
lexvars == <<bytes, index, line, column, tokens, frame, stdout>>

\* The state of CmdLine::parse.
cmdvars == <<args, argi, get_valne, cmd_index, cmd_args, others>>

vars == <<bytes, index, line, column, tokens, pc, frame, stderr, stdout, status,
          args, argi, get_valne, cmd_index, cmd_args, others>>

\* The locals of the sub-scanners, all of them in one record: start, index,
\* line, column, skip, max, and the flags of parse_number.
NoFrame ==
    [start |-> 0, index |-> 0, line |-> 0, column |-> 0, skip |-> FALSE,
     max |-> 0, f_flag |-> FALSE, bin_num |-> FALSE, oct_num |-> FALSE,
     hex_num |-> FALSE, dec_num |-> FALSE, err_token |-> FALSE]

\* ------------------------------------------------------------------ inputs
SeqsUpTo(S, n) == UNION {[1..k -> S] : k \in 0..n}

\* Code points of the general inputs: tab, newline, space, the two quotes,
\* '*', '/', '0', backslash, 'a' and a two-byte character (U+00E9).
Alphabet == {TAB, LF, SPACE, DQUOTE, SQUOTE, STAR, SLASH, 48, BACKSLASH, 97, 233}

\* Code points of the string-literal inputs, which start with '"'.
StrAlphabet == {DQUOTE, BACKSLASH, LF, 97, 98}

\* Code points of the comment inputs.
NoteAlphabet == {SLASH, STAR, LF, 97}

\* Code points of the char-literal inputs.
CharAlphabet == {SPACE, SQUOTE, BACKSLASH, LF, 97}

\* Code points of the inputs of spaces and newlines.
WsAlphabet == {SPACE, LF}

\* Code points of the identifier inputs: 'a', '_', '1', ';', space, a
\* control character (U+0001) and DEL.
IdAlphabet == {97, UNDERSCORE, 49, 59, SPACE, 1, 127}

\* Code points of the number inputs, which start with a digit: '0', '1',
\* '8', 'x', 'b', 'a', 'f', 'g' and space.
NumAlphabet == {48, 49, 56, 120, 98, 97, 102, 103, SPACE}

\* The inputs that the description of the lexer gives as examples:
\* "foo_bar123;", "0x1A3f ", "0b101 ", "089 ", "/* x *" and "==".
Examples ==
    {<<102, 111, 111, UNDERSCORE, 98, 97, 114, 49, 50, 51, 59>>,
     <<48, 120, 49, 65, 51, 102, SPACE>>,
     <<48, 98, 49, 48, 49, SPACE>>,
     <<48, 56, 57, SPACE>>,
     <<SLASH, STAR, SPACE, 120, SPACE, STAR>>,
     <<61, 61>>}

Inputs ==
    SeqsUpTo(Alphabet, MaxLen)
        \cup {<<DQUOTE>> \o s : s \in SeqsUpTo(StrAlphabet, MaxStrLen - 1)}
        \cup SeqsUpTo(NoteAlphabet, MaxNoteLen)
        \cup SeqsUpTo(CharAlphabet, MaxCharLen)
        \cup SeqsUpTo(WsAlphabet, MaxWsLen)
        \cup SeqsUpTo(IdAlphabet, MaxIdLen)
        \cup {<<d>> \o s : d \in {c \in NumAlphabet : is_ascii_digit(c)},
                            s \in SeqsUpTo(NumAlphabet, MaxNumLen - 1)}
        \cup Examples

\* Lex::new, and the file read into src, after CmdLine::parse has returned
\* with the name of the file as the one positional argument.
Init ==
    /\ args = <<File>>
    /\ argi = 1
    /\ get_valne = FALSE
    /\ cmd_index = 0
    /\ cmd_args = <<>>
    /\ others = <<File>>
    /\ \E s \in Inputs : bytes = as_bytes(s)
    /\ index = 0
    /\ line = 1
    /\ column = 1
    /\ tokens = <<>>
    /\ pc = "parse"
    /\ frame = NoFrame
    /\ stderr = <<>>
    /\ stdout = <<>>
    /\ status = 0

\* ---------------------------------------------------------------- dispatch
\* Scanner with parse_operator tried first.
ScannerOperatorFirst(b, i) ==
    IF is_ascii_punctuation(At(b, i)) THEN "operator"
    ELSE IF At(b, i) = LF THEN "new_line"
    ELSE IF At(b, i) = SPACE THEN "space"
    ELSE IF IsIdentStart(At(b, i)) THEN "identifier"
    ELSE IF is_ascii_digit(At(b, i)) THEN "number"
    ELSE "skip"

\* HasTwo asking for one byte only.
HasOne(b, i) == Len(b) - i >= 1

\* The test of parse_note before it looks at two bytes: not
\* bytes.len() - self.index < 2.
HasTwo(b, i) == Len(b) - i >= 2

\* The sub-scanner that consumes at bytes[i]: the if-cascade of the while
\* loop of Lex::parse with the start condition of each parse_* function.
Scanner(b, i) ==
    IF HasTwo(b, i) /\ At(b, i) = SLASH /\ At(b, i + 1) = STAR
    THEN "note_block"
    ELSE IF HasTwo(b, i) /\ At(b, i) = SLASH /\ At(b, i + 1) = SLASH
    THEN "note_line"
    ELSE IF At(b, i) = LF THEN "new_line"
    ELSE IF At(b, i) = SPACE THEN "space"
    ELSE IF At(b, i) = DQUOTE THEN "string"
    ELSE IF At(b, i) = SQUOTE THEN "char"
    ELSE IF IsIdentStart(At(b, i)) THEN "identifier"
    ELSE IF is_ascii_punctuation(At(b, i)) THEN "operator"
    ELSE IF is_ascii_digit(At(b, i)) THEN "number"
    ELSE "skip"

\* The while loop of Lex::parse is at an iteration that scanner s takes.
Dispatch(s) ==
    /\ pc = "parse"
    /\ index < Len(bytes)
    /\ Scanner(bytes, index) = s

\* Exit as a return from parse to main instead of the end of the process.
ExitReturns(msg, l, c) ==
    /\ stderr' = Append(stderr, [msg |-> msg, line |-> l, column |-> c])
    /\ pc' = "done"
    /\ UNCHANGED <<status, stdout>>

\* eprintln!(msg at l:c); std::process::exit(-1).  Location 0:0 stands for a
\* message that prints none.
Exit(msg, l, c) ==
    /\ stderr' = Append(stderr, [msg |-> msg, line |-> l, column |-> c])
    /\ status' = 255
    /\ pc' = "exit"
    /\ UNCHANGED stdout

\* --------------------------------------------------- single-byte scanners
\* parse_new_line
ParseNewLine ==
    /\ Dispatch("new_line")
    /\ UNCHANGED cmdvars
    /\ tokens' = Append(tokens, Token(line, column, "NewLine", <<LF>>))
    /\ index' = index + 1
    /\ line' = line + 1
    /\ column' = 1
    /\ UNCHANGED <<bytes, pc, frame, stderr, stdout, status>>

\* parse_space
ParseSpace ==
    /\ Dispatch("space")
    /\ UNCHANGED cmdvars
    /\ tokens' = Append(tokens, Token(line, column, "Space", <<SPACE>>))
    /\ index' = index + 1
    /\ column' = column + 1
    /\ UNCHANGED <<bytes, line, pc, frame, stderr, stdout, status>>

\* parse_operator taking the next byte into the lexeme when it repeats the
\* first.
ParseOperatorPair ==
    /\ Dispatch("operator")
    /\ UNCHANGED cmdvars
    /\ LET n == IF index + 1 < Len(bytes)
                    /\ At(bytes, index + 1) = At(bytes, index)
                THEN 2 ELSE 1
       IN /\ tokens' = Append(tokens, Token(line, column, "Operator(OpEq)",
                                            Source(bytes, index, index + n)))
          /\ index' = index + n
          /\ column' = column + n
    /\ UNCHANGED <<bytes, line, pc, frame, stderr, stdout, status>>

\* parse_operator: the byte at the cursor is pushed as an Operator token of
\* the sub-kind OpEq, and index and column move by one.
ParseOperator ==
    /\ Dispatch("operator")
    /\ UNCHANGED cmdvars
    /\ tokens' = Append(tokens, Token(line, column, "Operator(OpEq)",
                                      Source(bytes, index, index + 1)))
    /\ index' = index + 1
    /\ column' = column + 1
    /\ UNCHANGED <<bytes, line, pc, frame, stderr, stdout, status>>

\* Skip without self.column += 1.
SkipNoColumn ==
    /\ index' = index + 1
    /\ UNCHANGED <<bytes, line, column, tokens, pc, frame, stderr, stdout, status>>

\* No sub-scanner consumed: self.index += 1; self.column += 1.
Skip ==
    /\ index' = index + 1
    /\ column' = column + 1
    /\ UNCHANGED <<bytes, line, tokens, pc, frame, stderr, stdout, status>>

ParseSkip ==
    /\ Dispatch("skip")
    /\ UNCHANGED cmdvars
    /\ Skip

\* ------------------------------------------------------------- parse_note
\* The block form entered with only the '/' taken, so that the '*' of "/*"
\* can be the '*' of a "*/".
ParseNoteBlockOverlap ==
    /\ Dispatch("note_block")
    /\ UNCHANGED cmdvars
    /\ frame' = [NoFrame EXCEPT !.start = index, !.line = line, !.column = column]
    /\ index' = index + 1
    /\ pc' = "note_block"
    /\ UNCHANGED <<bytes, line, column, tokens, stderr, stdout, status>>

\* The block form is entered: start, line and column are kept, index += 2.
ParseNoteBlock ==
    /\ Dispatch("note_block")
    /\ UNCHANGED cmdvars
    /\ frame' = [NoFrame EXCEPT !.start = index, !.line = line, !.column = column]
    /\ index' = index + 2
    /\ pc' = "note_block"
    /\ UNCHANGED <<bytes, line, column, tokens, stderr, stdout, status>>

\* The token of a block comment with the location of the closing delimiter.
NoteBlockTokenAtEnd ==
    Token(line, column, "Note", Source(bytes, frame.start, index + 2))

\* The token of a block comment whose "*/" is at index: its location is the
\* one kept at "/*", its lexeme runs from start through the "*/".
NoteBlockToken ==
    Token(frame.line, frame.column, "Note", Source(bytes, frame.start, index + 2))

\* One iteration of the loop of the block form.
NoteBlockStep ==
    /\ pc = "note_block"
    /\ UNCHANGED cmdvars
    /\ IF ~HasTwo(bytes, index)
       THEN /\ Exit("'/*' Missing ending", 0, 0)
            /\ UNCHANGED <<bytes, index, line, column, tokens, frame>>
       ELSE IF At(bytes, index) = LF
       THEN /\ line' = line + 1
            /\ column' = 1
            /\ index' = index + 1
            /\ UNCHANGED <<bytes, tokens, pc, frame, stderr, stdout, status>>
       ELSE IF At(bytes, index) = STAR /\ At(bytes, index + 1) = SLASH
       THEN /\ index' = index + 2
            /\ tokens' = Append(tokens, NoteBlockToken)
            /\ column' = column + 2
            /\ pc' = "parse"
            /\ frame' = NoFrame
            /\ UNCHANGED <<bytes, line, stderr, stdout, status>>
       ELSE /\ column' = column + 1
            /\ index' = index + 1
            /\ UNCHANGED <<bytes, line, tokens, pc, frame, stderr, stdout, status>>

\* The line form is entered: start and column are kept, index += 2.
ParseNoteLine ==
    /\ Dispatch("note_line")
    /\ UNCHANGED cmdvars
    /\ frame' = [NoFrame EXCEPT !.start = index, !.column = column]
    /\ index' = index + 2
    /\ pc' = "note_line"
    /\ UNCHANGED <<bytes, line, column, tokens, stderr, stdout, status>>

\* One iteration of the loop of the line form.  Its first test is
\* bytes.len() >= self.index.
NoteLineStep ==
    /\ pc = "note_line"
    /\ UNCHANGED cmdvars
    /\ IF Len(bytes) >= index
       THEN /\ Exit("'//' Missing ending", 0, 0)
            /\ UNCHANGED <<bytes, index, line, column, tokens, frame>>
       ELSE IF At(bytes, index) = LF
       THEN /\ index' = index + 1
            /\ tokens' = Append(tokens, Token(line, frame.column, "Note",
                                    Source(bytes, frame.start, index + 1)))
            /\ line' = line + 1
            /\ column' = 1
            /\ pc' = "parse"
            /\ frame' = NoFrame
            /\ UNCHANGED <<bytes, stderr, stdout, status>>
       ELSE /\ column' = column + 1
            /\ index' = index + 1
            /\ UNCHANGED <<bytes, line, tokens, pc, frame, stderr, stdout, status>>

\* ----------------------------------------------------------- parse_string
\* The literal is entered: skip, start, column and line are set, index += 1.
ParseString ==
    /\ Dispatch("string")
    /\ UNCHANGED cmdvars
    /\ frame' = [NoFrame EXCEPT !.start = index, !.column = column, !.line = line]
    /\ index' = index + 1
    /\ pc' = "string"
    /\ UNCHANGED <<bytes, line, column, tokens, stderr, stdout, status>>

\* StringMissing with the locals line and column in the message.
StringMissingAtLocal == Exit("Missing '\"' at the end", frame.line, frame.column)

\* The buffer ended inside the literal: the message carries self.line and
\* self.column.
StringMissing == Exit("Missing '\"' at the end", line, column)

\* StringSkip with a backslash that is itself escaped clearing the flag.
StringSkipSticky(chr, skip) == chr = BACKSLASH /\ ~skip

\* The skip flag after the byte chr: set by a backslash, cleared by any
\* other byte.
StringSkip(chr, skip) == chr = BACKSLASH

\* One iteration of the loop of parse_string.
StringStep ==
    /\ pc = "string"
    /\ UNCHANGED cmdvars
    /\ IF Len(bytes) <= index
       THEN /\ StringMissing
            /\ UNCHANGED <<bytes, index, line, column, tokens, frame>>
       ELSE LET chr == At(bytes, index) IN
            IF chr = DQUOTE /\ ~frame.skip
            THEN /\ index' = index + 1
                 /\ tokens' = Append(tokens, Token(line, column, "Str",
                                         Source(bytes, frame.start, index + 1)))
                 /\ line' = frame.line
                 /\ column' = frame.column + 1
                 /\ pc' = "parse"
                 /\ frame' = NoFrame
                 /\ UNCHANGED <<bytes, stderr, stdout, status>>
            ELSE /\ frame' = [frame EXCEPT
                                !.skip = StringSkip(chr, frame.skip),
                                !.line = IF chr = LF THEN @ + 1 ELSE @,
                                !.column = IF chr = LF THEN 1 ELSE @ + 1]
                 /\ index' = index + 1
                 /\ UNCHANGED <<bytes, line, column, tokens, pc, stderr, stdout, status>>

\* ------------------------------------------------------------- parse_char
\* The literal is entered: skip, start, column and max are set, index += 1.
ParseChar ==
    /\ Dispatch("char")
    /\ UNCHANGED cmdvars
    /\ frame' = [NoFrame EXCEPT !.start = index, !.column = column, !.max = 2]
    /\ index' = index + 1
    /\ pc' = "char"
    /\ UNCHANGED <<bytes, line, column, tokens, stderr, stdout, status>>

\* CharTooLong with the index at max taken as past it.
CharTooLongAtMax(i, max) == i >= max

\* The test self.index > max of parse_char.
CharTooLong(i, max) == i > max

\* CharSkip with a backslash that is itself escaped clearing the flag.
CharSkipSticky(chr, skip) == chr = BACKSLASH /\ ~skip

\* The skip flag of parse_char after the byte chr: set by a backslash,
\* cleared by any other byte.
CharSkip(chr, skip) == chr = BACKSLASH

\* One iteration of the loop of parse_char.
CharStep ==
    /\ pc = "char"
    /\ UNCHANGED cmdvars
    /\ IF Len(bytes) <= index
       THEN /\ Exit("Missing ''' at the end", line, column)
            /\ UNCHANGED <<bytes, index, line, column, tokens, frame>>
       ELSE IF CharTooLong(index, frame.max)
       THEN /\ Exit("There can only be one character between \"''\"", line, column)
            /\ UNCHANGED <<bytes, index, line, column, tokens, frame>>
       ELSE LET chr == At(bytes, index) IN
            IF chr = SQUOTE /\ ~frame.skip
            THEN /\ index' = index + 1
                 /\ tokens' = Append(tokens, Token(line, column, "Char",
                                         Source(bytes, frame.start, index + 1)))
                 /\ column' = frame.column + 1
                 /\ pc' = "parse"
                 /\ frame' = NoFrame
                 /\ UNCHANGED <<bytes, line, stderr, stdout, status>>
            ELSE IF chr # SQUOTE /\ chr # BACKSLASH /\ ~is_ascii(chr)
            THEN /\ Exit("is not an ascii character", line, frame.column)
                 /\ UNCHANGED <<bytes, index, line, column, tokens, frame>>
            ELSE /\ frame' = [frame EXCEPT
                                !.skip = CharSkip(chr, frame.skip),
                                !.max = IF chr = BACKSLASH THEN 3 ELSE @,
                                !.column = @ + 1]
                 /\ index' = index + 1
                 /\ UNCHANGED <<bytes, line, column, tokens, pc, stderr, stdout, status>>

\* ------------------------------------------------------- parse_identifier
\* The run is entered: start, index and column are set.
ParseIdentifier ==
    /\ Dispatch("identifier")
    /\ UNCHANGED cmdvars
    /\ frame' = [NoFrame EXCEPT !.start = index, !.index = index, !.column = column]
    /\ pc' = "identifier"
    /\ UNCHANGED <<bytes, index, line, column, tokens, stderr, stdout, status>>

\* The token of a finished run put in front of the tokens.
EmitRunInFront(t) ==
    /\ tokens' = <<Token(line, column, t,
                         Source(bytes, frame.start, frame.index))>> \o tokens
    /\ index' = frame.index
    /\ column' = frame.column
    /\ pc' = "parse"
    /\ frame' = NoFrame
    /\ UNCHANGED <<bytes, line, stderr, stdout, status>>

\* The token of a finished run (of an identifier or of a number) is pushed
\* and the locals index and column are committed to the cursor.
EmitRun(t) ==
    /\ tokens' = Append(tokens, Token(line, column, t,
                            Source(bytes, frame.start, frame.index)))
    /\ index' = frame.index
    /\ column' = frame.column
    /\ pc' = "parse"
    /\ frame' = NoFrame
    /\ UNCHANGED <<bytes, line, stderr, stdout, status>>

\* AdvanceRun without index += 1 and column += 1.
AdvanceRunStuck(f) ==
    /\ frame' = f
    /\ UNCHANGED <<bytes, index, line, column, tokens, pc, stderr, stdout, status>>

\* index += 1; column += 1 on the locals, with the flags of parse_number as
\* given in f.
AdvanceRun(f) ==
    /\ frame' = [f EXCEPT !.index = @ + 1, !.column = @ + 1]
    /\ UNCHANGED <<bytes, index, line, column, tokens, pc, stderr, stdout, status>>

\* Every byte of the terminator arm ends the run, '_' too.
IdentifierEndsAlways(chr) == TRUE

\* A byte chr of the terminator arm ends the run unless it is '_'.
IdentifierEnds(chr) == chr # UNDERSCORE

\* Every byte outside the terminator arm goes on with the run.
IdentifierGoesOnAlways(chr) == TRUE

\* The arm 'a'..='z' | 'A'..='Z' | '_' | '0'..='9' of parse_identifier.
IdentifierGoesOn(chr) == IsIdentStart(chr) \/ is_ascii_digit(chr)

\* One iteration of the loop of parse_identifier.
IdentifierStep ==
    /\ pc = "identifier"
    /\ UNCHANGED cmdvars
    /\ IF Len(bytes) <= frame.index
       THEN EmitRun("Identifier")
       ELSE LET chr == At(bytes, frame.index) IN
            IF IsTerminator(chr)
            THEN IF IdentifierEnds(chr)
                 THEN EmitRun("Identifier")
                 ELSE AdvanceRun(frame)
            ELSE IF IdentifierGoesOn(chr)
            THEN AdvanceRun(frame)
            ELSE /\ Exit("cannot be an identifier", line, column)
                 /\ UNCHANGED <<bytes, index, line, column, tokens, frame>>

\* ----------------------------------------------------------- parse_number
\* The run is entered: the flags are cleared, start, index and column set.
ParseNumber ==
    /\ Dispatch("number")
    /\ UNCHANGED cmdvars
    /\ frame' = [NoFrame EXCEPT !.start = index, !.index = index, !.column = column]
    /\ pc' = "number"
    /\ UNCHANGED <<bytes, index, line, column, tokens, stderr, stdout, status>>

BinaryOverflow == "The number of binary values exceeds 1"
OctalOverflow == "The number of octal values exceeds 7"
DecimalOverflow == "The number of decimal values exceeds 9"
StartsWithNumber == "Identifiers cannot start with a number"

\* NoBase holding whatever the flags are.
NoBaseAlways(f) == TRUE

\* !bin_num && !oct_num && !hex_num
NoBase(f) == ~f.bin_num /\ ~f.oct_num /\ ~f.hex_num

\* Every byte is taken as the one right after the first byte of the run.
AfterFirstAlways(f) == TRUE

\* No byte is taken as the one right after the first byte of the run.
AfterFirstNever(f) == FALSE

\* The byte at the local index is the one right after the first byte of the
\* run: index - start == 1.
AfterFirst(f) == f.index - f.start = 1

\* An arm of the match that does not look at err_token.
Unguarded(f, r) == r

\* if !err_token { ... } around an arm of the match whose outcome is r:
\* with the flag set the arm does nothing.
Guarded(f, r) == IF f.err_token THEN [fatal |-> "", frame |-> f] ELSE r

\* The float flag is not looked at.
AfterFloatIgnored(f) == FALSE

\* if f_flag in the arms of the digits and of the letters a, c, d, e: the
\* byte comes after the 'f' of the run.
AfterFloat(f) == f.f_flag

\* A letter is passed over whatever the base of the run is.
OverflowNever(f) == [fatal |-> "", frame |-> f]

\* The chain if bin_num .. else if oct_num .. else if dec_num of the arms of
\* the letters: the overflow error of the base that is active, nothing when
\* none of the three is.
Overflow(f) ==
    IF f.bin_num THEN [fatal |-> BinaryOverflow, frame |-> f]
    ELSE IF f.oct_num THEN [fatal |-> OctalOverflow, frame |-> f]
    ELSE IF f.dec_num THEN [fatal |-> DecimalOverflow, frame |-> f]
    ELSE [fatal |-> "", frame |-> f]

\* The match of parse_number on a byte chr that is not a terminator, with
\* the locals f: the message of the fatal error it raises ("" when none)
\* and the locals after it.
NumberByte(b, f, chr) ==
    LET ok(g) == [fatal |-> "", frame |-> g]
        die(m) == [fatal |-> m, frame |-> f]
        malformed == ok([f EXCEPT !.err_token = TRUE])
        decimal == IF NoBase(f) THEN [f EXCEPT !.dec_num = TRUE] ELSE f
        overflow == Overflow(f)
    IN
    IF chr = 48
    THEN Guarded(f,
            IF AfterFloat(f) THEN malformed
            ELSE IF f.start = f.index THEN ok([f EXCEPT !.oct_num = TRUE])
            ELSE ok(f))
    ELSE IF chr = 49
    THEN Guarded(f,
            IF AfterFloat(f) THEN malformed
            ELSE ok(decimal))
    ELSE IF chr >= 50 /\ chr <= 55
    THEN Guarded(f,
            IF AfterFloat(f) THEN malformed
            ELSE IF f.bin_num THEN die(BinaryOverflow)
            ELSE ok(decimal))
    ELSE IF chr >= 56 /\ chr <= 57
    THEN Guarded(f,
            IF AfterFloat(f) THEN malformed
            ELSE IF f.bin_num THEN die(BinaryOverflow)
            ELSE IF f.oct_num THEN die(OctalOverflow)
            ELSE ok(decimal))
    ELSE IF chr \in {97, 65} \/ (chr >= 99 /\ chr <= 101) \/ (chr >= 67 /\ chr <= 69)
    THEN Guarded(f,
            IF AfterFloat(f) THEN malformed
            ELSE IF f.bin_num \/ f.oct_num \/ f.dec_num THEN overflow
            ELSE IF ~f.hex_num THEN malformed
            ELSE ok(f))
    ELSE IF chr \in {120, 88}
    THEN Guarded(f,
            IF ~(f.oct_num /\ AfterFirst(f)) THEN malformed
            ELSE ok([f EXCEPT !.oct_num = FALSE, !.hex_num = TRUE]))
    ELSE IF chr \in {98, 66}
    THEN Guarded(f,
            IF f.oct_num
            THEN IF AfterFirst(f)
                 THEN ok([f EXCEPT !.oct_num = FALSE, !.bin_num = TRUE])
                 ELSE die(OctalOverflow)
            ELSE IF f.bin_num THEN die(BinaryOverflow)
            ELSE IF f.dec_num THEN die(DecimalOverflow)
            ELSE IF ~f.hex_num THEN malformed
            ELSE ok(f))
    ELSE IF chr \in {102, 70}
    THEN Guarded(f,
            IF f.hex_num THEN ok(f)
            ELSE IF f.index # f.start /\ is_ascii_digit(At(b, f.index - 1))
            THEN IF f.f_flag THEN malformed
                 ELSE ok([f EXCEPT !.f_flag = TRUE])
            ELSE overflow)
    ELSE malformed

\* The column of an overflow error, were it the cursor's.
OverflowColumnStart == column

\* The column that the overflow errors print: the local column.
OverflowColumn == frame.column

\* One iteration of the loop of parse_number.
NumberStep ==
    /\ pc = "number"
    /\ UNCHANGED cmdvars
    /\ IF Len(bytes) <= frame.index \/ IsTerminator(At(bytes, frame.index))
       THEN IF frame.err_token
            THEN /\ Exit(StartsWithNumber, line, column)
                 /\ UNCHANGED <<bytes, index, line, column, tokens, frame>>
            ELSE EmitRun("Number")
       ELSE LET r == NumberByte(bytes, frame, At(bytes, frame.index)) IN
            IF r.fatal # ""
            THEN /\ Exit(r.fatal, line, OverflowColumn)
                 /\ UNCHANGED <<bytes, index, line, column, tokens, frame>>
            ELSE AdvanceRun(r.frame)

\* -------------------------------------------------------------------- show
\* The decimal digits of n, as characters.
RECURSIVE Decimal(_)
Decimal(n) == IF n < 10 THEN <<48 + n>> ELSE Decimal(n \div 10) \o <<48 + (n % 10)>>

\* {:?} of a TokenType, as characters.
DebugType(t) ==
    CASE t = "Note" -> <<78, 111, 116, 101>>
      [] t = "NewLine" -> <<78, 101, 119, 76, 105, 110, 101>>
      [] t = "Space" -> <<83, 112, 97, 99, 101>>
      [] t = "Number" -> <<78, 117, 109, 98, 101, 114>>
      [] t = "Str" -> <<83, 116, 114>>
      [] t = "Char" -> <<67, 104, 97, 114>>
      [] t = "Identifier" -> <<73, 100, 101, 110, 116, 105, 102, 105, 101, 114>>
      [] t = "Operator(OpEq)" ->
            <<79, 112, 101, 114, 97, 116, 111, 114, 40, 79, 112, 69, 113, 41>>

\* Location::show: "{}:{}:{}" of file, line, column.
LocationShow(tok) == File \o <<58>> \o Decimal(tok.line) \o <<58>> \o Decimal(tok.column)

\* Token::show: "'{}' [{:?}] Loc:({})".
TokenShow(tok) ==
    <<39>> \o tok.source \o <<39, 32, 91>> \o DebugType(tok.token_type)
        \o <<93, 32, 76, 111, 99, 58, 40>> \o LocationShow(tok) \o <<41>>

\* The kinds left out of the dump, without Space.
IsTriviaNoSpace(tok) == tok.token_type \in {"Note", "NewLine"}

\* The kinds that Lex::show leaves out of the dump.
IsTrivia(tok) == tok.token_type \in {"Note", "NewLine", "Space"}

\* The for loop of Lex::show: the string after the tokens toks.
RECURSIVE ShowLoop(_)
ShowLoop(toks) ==
    IF toks = <<>> THEN <<>>
    ELSE (IF IsTrivia(Head(toks)) THEN <<>> ELSE TokenShow(Head(toks)) \o <<LF>>)
             \o ShowLoop(Tail(toks))

\* The string with its last character left in place.
PopNothing(str) == str

\* String::pop: the string without its last character, if it has one.
Pop(str) == IF str = <<>> THEN <<>> ELSE SubSeq(str, 1, Len(str) - 1)

\* Lex::show
Show(toks) == Pop(ShowLoop(toks))

\* -------------------------------------------------------------------- main
\* println!("{}", lex.show()) after lex.parse() has returned; main ends.
MainPrint ==
    /\ pc = "done"
    /\ UNCHANGED cmdvars
    /\ stdout' = Show(tokens) \o <<LF>>
    /\ pc' = "end"
    /\ UNCHANGED <<bytes, index, line, column, tokens, frame, stderr, status>>

\* ------------------------------------------------------------------- reads
\* The offsets i of the expressions bytes[i] that the step of the state
\* evaluates: the tests of the parse_* functions at the cursor with the
\* second byte of parse_note, and in each loop the byte at its index once
\* the tests before it have let it through, with the second byte for "*/"
\* in the block comment and the byte before an 'f' in parse_number.
Reads ==
    IF pc = "parse"
    THEN IF ~(index < Len(bytes)) THEN {}
         ELSE {index} \cup (IF HasTwo(bytes, index) /\ At(bytes, index) = SLASH
                            THEN {index + 1} ELSE {})
    ELSE IF pc = "note_block"
    THEN IF ~HasTwo(bytes, index) THEN {}
         ELSE {index} \cup (IF At(bytes, index) = STAR THEN {index + 1} ELSE {})
    ELSE IF pc = "note_line"
    THEN IF Len(bytes) >= index THEN {} ELSE {index}
    ELSE IF pc = "string"
    THEN IF Len(bytes) <= index THEN {} ELSE {index}
    ELSE IF pc = "char"
    THEN IF Len(bytes) <= index \/ CharTooLong(index, frame.max)
         THEN {} ELSE {index}
    ELSE IF pc = "identifier"
    THEN IF Len(bytes) <= frame.index THEN {} ELSE {frame.index}
    ELSE IF pc = "number"
    THEN IF Len(bytes) <= frame.index THEN {}
         ELSE {frame.index}
              \cup (IF /\ At(bytes, frame.index) \in {70, 102}
                       /\ ~frame.err_token
                       /\ ~frame.hex_num
                       /\ frame.index # frame.start
                    THEN {frame.index - 1} ELSE {})
    ELSE {}

\* ------------------------------------------------------------------- parse
\* The while loop of Lex::parse ends and parse returns to main.
ParseReturn ==
    /\ pc = "parse"
    /\ UNCHANGED cmdvars
    /\ ~(index < Len(bytes))
    /\ pc' = "done"
    /\ UNCHANGED <<bytes, index, line, column, tokens, frame, stderr, stdout, status>>

Next ==
    \/ ParseNoteBlock
    \/ NoteBlockStep
    \/ ParseNoteLine
    \/ NoteLineStep
    \/ ParseNewLine
    \/ ParseSpace
    \/ ParseString
    \/ StringStep
    \/ ParseChar
    \/ CharStep
    \/ ParseIdentifier
    \/ IdentifierStep
    \/ ParseOperator
    \/ ParseNumber
    \/ NumberStep
    \/ ParseSkip
    \/ ParseReturn
    \/ MainPrint

Spec == Init /\ [][Next]_vars

\* The process runs on: a step that is possible is taken.
FairSpec == Spec /\ WF_vars(Next)

\* ================================================================ cmdline
\* CmdLine::parse (src/src/cmdline.rs) as main calls it: the options are
\* those that add_cmd_info registers, the arguments are args[1..].  Strings
\* are sequences of character codes.

\* Number of arguments on the command line.
MaxArgs == 3

\* CmdLine.info after add_cmd_info: short, long and val_type of each option,
\* in the order of registration (index is the position, from 0):
\* --help, --version, -o, -D, -I, -v, -###, -E, -S, -c, -pie, -std=.
Info ==
    <<[short |-> <<>>, long |-> <<45, 45, 104, 101, 108, 112>>,
       val_type |-> "NoVal"],
      [short |-> <<>>, long |-> <<45, 45, 118, 101, 114, 115, 105, 111, 110>>,
       val_type |-> "NoVal"],
      [short |-> <<45, 111>>, long |-> <<>>, val_type |-> "ValSpace"],
      [short |-> <<45, 68>>, long |-> <<>>, val_type |-> "ValOptSpace"],
      [short |-> <<45, 73>>, long |-> <<>>, val_type |-> "ValOptSpace"],
      [short |-> <<45, 118>>, long |-> <<>>, val_type |-> "NoVal"],
      [short |-> <<45, 35, 35, 35>>, long |-> <<>>, val_type |-> "NoVal"],
      [short |-> <<45, 69>>, long |-> <<>>, val_type |-> "NoVal"],
      [short |-> <<45, 83>>, long |-> <<>>, val_type |-> "NoVal"],
      [short |-> <<45, 99>>, long |-> <<>>, val_type |-> "NoVal"],
      [short |-> <<45, 112, 105, 101>>, long |-> <<>>, val_type |-> "NoVal"],
      [short |-> <<45, 115, 116, 100, 61>>, long |-> <<>>,
       val_type |-> "ValNoSpace"]>>

\* The arguments the command lines are made of: "-", "-D", "-Dx", "-I",
\* "-o", "-v", "-st", "-std=", "-std=c", "--help" and the file "a.c".
ArgPool ==
    {<<45>>, <<45, 68>>, <<45, 68, 120>>, <<45, 73>>, <<45, 111>>,
     <<45, 118>>, <<45, 115, 116>>, <<45, 115, 116, 100, 61>>,
     <<45, 115, 116, 100, 61, 99>>, <<45, 45, 104, 101, 108, 112>>, File}

\* CmdLine::new, add_cmd_info, and the arguments collected by main.
CmdInit ==
    /\ args \in SeqsUpTo(ArgPool, MaxArgs)
    /\ argi = 0
    /\ get_valne = FALSE
    /\ cmd_index = 0
    /\ cmd_args = <<>>
    /\ others = <<>>
    /\ pc = "cmdline"
    /\ stderr = <<>>
    /\ status = 0
    /\ bytes = <<>>
    /\ index = 0
    /\ line = 1
    /\ column = 1
    /\ tokens = <<>>
    /\ frame = NoFrame
    /\ stdout = <<>>

\* name[..len] == str[..len] with len the smaller of the two lengths.
CommonPrefix(name, str) ==
    LET len == IF Len(name) < Len(str) THEN Len(name) ELSE Len(str)
    IN SubSeq(name, 1, len) = SubSeq(str, 1, len)

\* CmdLine::cmd_is_meatch: "Short", "Long" or "None".
cmd_is_meatch(cmd, str) ==
    IF cmd.val_type \in {"NoVal", "ValSpace"}
    THEN IF cmd.short = str THEN "Short"
         ELSE IF cmd.long = str THEN "Long"
         ELSE "None"
    ELSE IF Len(cmd.long) > 0 /\ CommonPrefix(cmd.long, str) THEN "Long"
         ELSE IF Len(cmd.short) > 0 /\ CommonPrefix(cmd.short, str) THEN "Short"
         ELSE "None"

\* The position in Info (from 1) of the first option that the for loop over
\* self.info matches with arg, 0 if there is none.
FirstCmd(arg) ==
    LET m == {k \in 1..Len(Info) : cmd_is_meatch(Info[k], arg) # "None"}
    IN IF m = {} THEN 0 ELSE CHOOSE k \in m : \A j \in m : k <= j

\* self.args after the values of the option i have been replaced by val.
PushValueAlone(map, i, val) ==
    [k \in DOMAIN map \cup {i} |-> IF k = i THEN <<val>> ELSE map[k]]

\* self.args after val has been pushed to the values of the option i (a new
\* list when the option has none yet).
PushValue(map, i, val) ==
    [k \in DOMAIN map \cup {i} |->
        IF k = i
        THEN IF i \in DOMAIN map THEN Append(map[i], val) ELSE <<val>>
        ELSE map[k]]

\* self.args.insert(i, vals)
Insert(map, i, vals) ==
    [k \in DOMAIN map \cup {i} |-> IF k = i THEN vals ELSE map[k]]

\* An iteration of the for loop with get_valne set: the argument becomes a
\* value of the option index.
CmdTakeValue ==
    /\ pc = "cmdline"
    /\ argi < Len(args)
    /\ get_valne
    /\ get_valne' = FALSE
    /\ cmd_args' = PushValue(cmd_args, cmd_index, args[argi + 1])
    /\ argi' = argi + 1
    /\ UNCHANGED <<args, cmd_index, others, pc, stderr, status>>
    /\ UNCHANGED lexvars

\* An iteration of the for loop in which an option matches the argument:
\* what the arm of its val_type does.
CmdOption ==
    /\ pc = "cmdline"
    /\ argi < Len(args)
    /\ ~get_valne
    /\ FirstCmd(args[argi + 1]) # 0
    /\ LET arg == args[argi + 1]
           k == FirstCmd(arg)
           cmd == Info[k]
           name == IF cmd_is_meatch(cmd, arg) = "Long" THEN cmd.long ELSE cmd.short
           attached == Len(name) < Len(arg)
           value == IF attached THEN SubSeq(arg, Len(name) + 1, Len(arg)) ELSE <<>>
           await == /\ get_valne' = TRUE
                    /\ cmd_index' = k - 1
                    /\ UNCHANGED <<cmd_args, pc, status>>
           store(map) == /\ cmd_args' = map
                         /\ UNCHANGED <<get_valne, cmd_index, pc, status>>
       IN
       IF cmd.val_type = "NoVal"
       THEN store(Insert(cmd_args, k - 1, <<>>))
       ELSE IF cmd.val_type = "ValSpace"
       THEN await
       ELSE IF cmd.val_type = "OptVal"
       THEN IF value # <<>>
            THEN store(PushValue(cmd_args, k - 1, value))
            ELSE IF k - 1 \in DOMAIN cmd_args
            THEN store(cmd_args)
            ELSE store(Insert(cmd_args, k - 1, <<>>))
       ELSE IF cmd.val_type = "ValNoSpace"
       THEN IF attached
            THEN store(PushValue(cmd_args, k - 1, value))
            ELSE /\ pc' = "exit"
                 /\ status' = 255
                 /\ UNCHANGED <<get_valne, cmd_index, cmd_args>>
       ELSE IF attached
            THEN store(PushValue(cmd_args, k - 1, value))
            ELSE await
    /\ argi' = argi + 1
    /\ UNCHANGED <<args, others, stderr>>
    /\ UNCHANGED lexvars

\* An iteration of the for loop in which no option matches the argument:
\* it is pushed to others.
CmdOther ==
    /\ pc = "cmdline"
    /\ argi < Len(args)
    /\ ~get_valne
    /\ FirstCmd(args[argi + 1]) = 0
    /\ others' = Append(others, args[argi + 1])
    /\ argi' = argi + 1
    /\ UNCHANGED <<args, get_valne, cmd_index, cmd_args, pc, stderr, status>>
    /\ UNCHANGED lexvars

\* After the for loop: "<option>: Missing value." and exit(-1) when a value
\* is still awaited, the return of parse otherwise.
CmdParseEnd ==
    /\ pc = "cmdline"
    /\ argi = Len(args)
    /\ IF get_valne
       THEN /\ stderr' = Append(stderr,
                  [msg |-> "Missing value.",
                   name |-> IF Len(Info[cmd_index + 1].short) > 0
                            THEN Info[cmd_index + 1].short
                            ELSE Info[cmd_index + 1].long])
            /\ status' = 255
            /\ pc' = "exit"
       ELSE /\ pc' = "cmd_done"
            /\ UNCHANGED <<stderr, status>>
    /\ UNCHANGED cmdvars
    /\ UNCHANGED lexvars

CmdNext ==
    \/ CmdTakeValue
    \/ CmdOption
    \/ CmdOther
    \/ CmdParseEnd

CmdSpec == CmdInit /\ [][CmdNext]_vars

\* ================================================================== claims
\* A byte that is in the start set of some sub-scanner.
RecognizedByte(c) ==
    \/ c \in {LF, SPACE, DQUOTE, SQUOTE}
    \/ IsIdentStart(c)
    \/ is_ascii_punctuation(c)
    \/ is_ascii_digit(c)

AllRecognized(b) == \A i \in 1..Len(b) : RecognizedByte(b[i])

\* The lexemes of the tokens toks, concatenated in order.
RECURSIVE Lexemes(_)
Lexemes(toks) ==
    IF toks = <<>> THEN <<>> ELSE Head(toks).source \o Lexemes(Tail(toks))

Last(s) == s[Len(s)]

\* The number of '\n' bytes in s.
CountLF(s) == Cardinality({i \in 1..Len(s) : s[i] = LF})

\* The offset of the first byte of the line that offset i of b is on.
LineStart(b, i) ==
    LET nl == {j \in 1..i : b[j] = LF}
    IN IF nl = {} THEN 0 ELSE CHOOSE j \in nl : \A k \in nl : k <= j

\* The while loop of parse is about to start an iteration, or has ended.
AtStep == pc \in {"parse", "done"}

\* C1: when the scan of a buffer whose bytes are all in the start set of some
\* sub-scanner completes, the lexemes of the tokens, concatenated in order,
\* are the buffer.
C1_RoundTrip ==
    (pc = "done" /\ AllRecognized(bytes)) => Lexemes(tokens) = bytes

\* A completed scan of a buffer of recognized bytes that starts with a block
\* comment and goes on with another token.
C1_Witness ==
    /\ pc = "done"
    /\ AllRecognized(bytes)
    /\ Len(tokens) >= 2
    /\ tokens[1].token_type = "Note"

\* The sub-scanners in the order the dispatch loop is to try them, and the
\* start condition of each.
Order ==
    <<"Comment", "Newline", "Whitespace", "StringLiteral", "CharLiteral",
      "Identifier", "Operator", "NumberLiteral">>

StartsAt(name, b, i) ==
    LET c == At(b, i) IN
    CASE name = "Comment" ->
            /\ c = SLASH
            /\ i + 1 < Len(b)
            /\ At(b, i + 1) \in {STAR, SLASH}
      [] name = "Newline" -> c = LF
      [] name = "Whitespace" -> c = SPACE
      [] name = "StringLiteral" -> c = DQUOTE
      [] name = "CharLiteral" -> c = SQUOTE
      [] name = "Identifier" -> IsIdentStart(c)
      [] name = "Operator" -> is_ascii_punctuation(c)
      [] name = "NumberLiteral" -> is_ascii_digit(c)

FirstMatch(b, i) ==
    LET m == {k \in 1..Len(Order) : StartsAt(Order[k], b, i)}
    IN IF m = {} THEN "None" ELSE Order[CHOOSE k \in m : \A j \in m : k <= j]

\* The sub-scanner that consumed input in a step of the dispatch loop, read
\* from what the step did.
ConsumedBy ==
    IF pc' \in {"note_block", "note_line"} THEN "Comment"
    ELSE IF pc' = "string" THEN "StringLiteral"
    ELSE IF pc' = "char" THEN "CharLiteral"
    ELSE IF pc' = "identifier" THEN "Identifier"
    ELSE IF pc' = "number" THEN "NumberLiteral"
    ELSE IF Len(tokens') = Len(tokens) + 1
    THEN CASE Last(tokens').token_type = "NewLine" -> "Newline"
           [] Last(tokens').token_type = "Space" -> "Whitespace"
           [] Last(tokens').token_type = "Operator(OpEq)" -> "Operator"
           [] OTHER -> "Other"
    ELSE "None"

\* C2: in every step of the dispatch loop the sub-scanner that consumes is
\* the first one, in the order Comment, Newline, Whitespace, StringLiteral,
\* CharLiteral, Identifier, Operator, NumberLiteral, whose start condition
\* holds at the current byte, and no sub-scanner consumes when none holds.
C2_DispatchOrder ==
    [][(pc = "parse" /\ index < Len(bytes))
          => ConsumedBy = FirstMatch(bytes, index)]_vars

\* "/*" has been taken by the Comment scanner, which emitted the token.
C2_Witness ==
    /\ pc = "parse"
    /\ Len(tokens) = 1
    /\ tokens[1].token_type = "Note"
    /\ tokens[1].source = <<SLASH, STAR, STAR, SLASH>>
    /\ index = 4

\* C3: whenever the dispatch loop is about to start a step, or has ended,
\* column is 1 + the number of bytes consumed since the last consumed '\n'
\* (since the start of the buffer if there is none).
C3_ColumnTracking ==
    AtStep => column = 1 + (index - LineStart(bytes, index))

\* C4: whenever the dispatch loop is about to start a step, or has ended,
\* line is 1 + the number of '\n' bytes among the bytes consumed so far, and
\* column is 1 right after a consumed '\n'.
C4_LineTracking ==
    AtStep =>
        /\ line = 1 + CountLF(Slice(bytes, 0, index))
        /\ (index > 0 /\ At(bytes, index - 1) = LF) => column = 1

\* C5: a step of the dispatch loop at a byte that is in no sub-scanner's
\* start set advances index by 1 and column by 1, leaves line and the tokens
\* unchanged and raises no error.
C5_SilentSkip ==
    [][(pc = "parse" /\ index < Len(bytes) /\ ~RecognizedByte(At(bytes, index)))
          => /\ index' = index + 1
             /\ column' = column + 1
             /\ line' = line
             /\ tokens' = tokens
             /\ stderr' = stderr
             /\ status' = 0
             /\ pc' = "parse"]_vars

\* The first byte of the buffer has been skipped.
C5_Witness ==
    /\ pc = "parse"
    /\ index = 1
    /\ column = 2
    /\ line = 1
    /\ tokens = <<>>
    /\ ~RecognizedByte(At(bytes, 0))

\* C6: once a sub-scanner has reported an error, there is exactly that one
\* error, the process has exited with a non-zero status, nothing has been
\* written to stdout, and nothing changes any more.
C6_ErrorStops ==
    /\ [](stderr # <<>> =>
            /\ Len(stderr) = 1
            /\ pc = "exit"
            /\ status # 0
            /\ stdout = <<>>)
    /\ [][pc = "exit" => UNCHANGED vars]_vars

\* The scan failed after tokens had been emitted.
C6_Witness ==
    /\ pc = "exit"
    /\ Len(tokens) >= 2
    /\ index < Len(bytes)

\* The offset of the first '\n' at or after offset i of b (Len(b) if none).
FirstLF(b, i) ==
    LET nl == {j \in i..(Len(b) - 1) : At(b, j) = LF}
    IN IF nl = {} THEN Len(b) ELSE CHOOSE j \in nl : \A k \in nl : j <= k

\* C7: the Comment scanner, on "//" with a '\n' after it, consumes up to but
\* not including that '\n' and emits one Comment token, located at the "//",
\* whose lexeme ends before the '\n'; it raises no error.
C7_LineComment ==
    [][(pc = "note_line" /\ FirstLF(bytes, frame.start) < Len(bytes))
          => /\ pc' \in {"note_line", "parse"}
             /\ pc' = "parse" =>
                  /\ index' = FirstLF(bytes, frame.start)
                  /\ tokens' = Append(tokens,
                        Token(line, frame.column, "Note",
                              Slice(bytes, frame.start, index')))]_vars

\* A char literal at offset s of b: a quote, one ASCII byte that is neither
\* a quote, a backslash nor a newline, a quote; or a quote, a backslash, one
\* byte, a quote.  Its length (0 if there is none).
CharLiteralLen(b, s) ==
    IF /\ s + 2 < Len(b)
       /\ At(b, s + 1) \notin {SQUOTE, BACKSLASH, LF}
       /\ is_ascii(At(b, s + 1))
       /\ At(b, s + 2) = SQUOTE
    THEN 3
    ELSE IF /\ s + 3 < Len(b)
            /\ At(b, s + 1) = BACKSLASH
            /\ is_ascii(At(b, s + 2))
            /\ At(b, s + 3) = SQUOTE
    THEN 4
    ELSE 0

\* C8: a char literal of one content byte, or of a backslash and one byte,
\* is accepted wherever it starts: the scanner raises no error on it and
\* emits one CharLiteral token whose lexeme is the literal with its quotes.
C8_CharLiteral ==
    [][(pc = "char" /\ CharLiteralLen(bytes, frame.start) > 0)
          => /\ pc' \in {"char", "parse"}
             /\ pc' = "parse" =>
                  /\ index' = frame.start + CharLiteralLen(bytes, frame.start)
                  /\ Last(tokens').token_type = "Char"
                  /\ Last(tokens').source = Slice(bytes, frame.start, index')]_vars

\* The offset of the first '"' of b after offset s that does not directly
\* follow a backslash (Len(b) if none).
ClosingQuote(b, s) ==
    LET q == {j \in (s + 1)..(Len(b) - 1) :
                 At(b, j) = DQUOTE /\ At(b, j - 1) # BACKSLASH}
    IN IF q = {} THEN Len(b) ELSE CHOOSE j \in q : \A k \in q : j <= k

\* C9: a string literal ends at the first '"' after the opening one that is
\* not escaped (does not directly follow a backslash); the token's lexeme is
\* the bytes from the opening quote through that quote, its location is the
\* cursor's line and column at the opening quote, which do not change while
\* the literal is scanned, and line is then advanced by the number of '\n'
\* bytes in the literal.
C9_StringLiteral ==
    /\ [][pc' = "string" => UNCHANGED <<line, column>>]_vars
    /\ [][(pc = "string" /\ pc' = "string")
             => index < ClosingQuote(bytes, frame.start)]_vars
    /\ [][(pc = "string" /\ pc' = "parse")
             => /\ index = ClosingQuote(bytes, frame.start)
                /\ index' = index + 1
                /\ tokens' = Append(tokens,
                      Token(line, column, "Str",
                            Slice(bytes, frame.start, index')))
                /\ line' = line + CountLF(Slice(bytes, frame.start, index'))]_vars

\* The scan of the 6 bytes "a\"b" has ended with one token whose lexeme is
\* these 6 bytes.
C9_Witness ==
    /\ pc = "done"
    /\ bytes = <<DQUOTE, 97, BACKSLASH, DQUOTE, 98, DQUOTE>>
    /\ Len(tokens) = 1
    /\ tokens[1] = Token(1, 1, "Str", bytes)

\* The error of parse_string at the end of the buffer has been reported.
StringUnterminated ==
    /\ pc = "exit"
    /\ stderr # <<>>
    /\ stderr[1].msg = "Missing '\"' at the end"

\* C10 as claimed: when the buffer ends inside a string literal the location
\* in the error is the position reached inside the literal.
C10_ReportsCurrent ==
    StringUnterminated =>
        /\ stderr[1].line = frame.line
        /\ stderr[1].column = frame.column

\* C10, amended: when the buffer ends inside a string literal the scan fails
\* with a non-zero status and the location in the error is the cursor's line
\* and column, which are those of the opening quote: they do not change
\* while the literal is scanned.
C10_ReportsOpening ==
    /\ [](StringUnterminated =>
            /\ status # 0
            /\ index = Len(bytes)
            /\ stderr[1].line = line
            /\ stderr[1].column = column)
    /\ [][pc' \in {"string", "exit"} => UNCHANGED <<line, column>>]_vars

\* The buffer ended inside a string literal after a '\n' of the literal had
\* been scanned.
C10_Witness ==
    /\ StringUnterminated
    /\ frame.line > line

\* The offset of the first "*/" of b that starts after the "/*" at offset s
\* (Len(b) if none).
FirstClose(b, s) ==
    LET q == {j \in (s + 2)..(Len(b) - 2) :
                 At(b, j) = STAR /\ At(b, j + 1) = SLASH}
    IN IF q = {} THEN Len(b) ELSE CHOOSE j \in q : \A k \in q : j <= k

\* C11: a block comment gives exactly one Comment token; its lexeme is the
\* bytes from the "/*" through the first "*/" after it, its location is the
\* cursor's line and column at the opening '/' (kept when the comment is
\* entered, not those reached at the "*/"), and the cursor's line is
\* increased by the number of '\n' bytes in the comment.
C11_BlockComment ==
    /\ [][(pc = "parse" /\ pc' = "note_block")
             => /\ frame'.start = index
                /\ frame'.line = line
                /\ frame'.column = column]_vars
    /\ [][(pc = "note_block" /\ pc' = "note_block")
             => /\ index < FirstClose(bytes, frame.start)
                /\ UNCHANGED <<tokens, frame>>]_vars
    /\ [][(pc = "note_block" /\ pc' = "parse")
             => /\ index = FirstClose(bytes, frame.start)
                /\ index' = index + 2
                /\ tokens' = Append(tokens,
                      Token(frame.line, frame.column, "Note",
                            Slice(bytes, frame.start, index')))
                /\ line' = frame.line
                             + CountLF(Slice(bytes, frame.start, index'))]_vars

\* The scan of a comment of two lines has ended: the comment's token is at
\* line 1, column 1 and the cursor is on line 2.
C11_Witness ==
    /\ pc = "done"
    /\ bytes = <<SLASH, STAR, LF, STAR, SLASH>>
    /\ tokens = <<Token(1, 1, "Note", bytes)>>
    /\ line = 2

\* The error of the block form of parse_note has been reported.
NoteUnterminated ==
    /\ pc = "exit"
    /\ stderr = <<[msg |-> "'/*' Missing ending", line |-> 0, column |-> 0]>>

\* C12: when the buffer has no "*/" after a "/*", the scan of the comment
\* can only go on through the buffer, emitting no token, and end in the
\* fatal error of the missing "*/": the process has then exited with a
\* non-zero status and has written nothing to stdout.
C12_Unterminated ==
    /\ [][(pc = "note_block" /\ FirstClose(bytes, frame.start) = Len(bytes))
             => /\ tokens' = tokens
                /\ stdout' = <<>>
                /\ \/ pc' = "note_block" /\ index' = index + 1
                                         /\ index' <= Len(bytes)
                   \/ NoteUnterminated' /\ status' # 0]_vars
    /\ [](NoteUnterminated =>
            /\ status # 0
            /\ stdout = <<>>
            /\ FirstClose(bytes, frame.start) = Len(bytes))

\* The scan of the 3 bytes "/*/" has failed: the '*' of the "/*" is not
\* taken for the '*' of a "*/".
C12_Witness ==
    /\ NoteUnterminated
    /\ bytes = <<SLASH, STAR, SLASH>>
    /\ tokens = <<>>

\* The buffer b holds only spaces and newlines.
OnlySpaces(b) == \A i \in 1..Len(b) : b[i] \in {SPACE, LF}

\* C13: on a buffer of only spaces and newlines the scan raises no error
\* and completes, every byte has become one token of that one byte
\* (Whitespace for a space, Newline for a '\n'), the rendered dump is the
\* empty string, and the cursor ends at line 1 + the number of '\n' bytes
\* and at column 1 + the number of bytes after the last '\n'.
C13_OnlySpaces ==
    OnlySpaces(bytes) =>
        /\ pc \in {"parse", "done", "end"}
        /\ stderr = <<>>
        /\ Len(tokens) = index
        /\ \A k \in 1..Len(tokens) :
              /\ tokens[k].source = <<bytes[k]>>
              /\ tokens[k].token_type =
                    (IF bytes[k] = LF THEN "NewLine" ELSE "Space")
        /\ pc = "parse" => (index < Len(bytes) \/ ENABLED ParseReturn)
        /\ pc \in {"done", "end"} =>
              /\ index = Len(bytes)
              /\ Show(tokens) = <<>>
              /\ line = 1 + CountLF(bytes)
              /\ column = 1 + (Len(bytes) - LineStart(bytes, Len(bytes)))
        /\ pc = "end" => stdout = <<LF>>

\* The scan of two spaces, a newline and a space has ended and main has
\* printed the empty dump (println! ends it with a newline).
C13_Witness ==
    /\ pc = "end"
    /\ bytes = <<SPACE, SPACE, LF, SPACE>>
    /\ Len(tokens) = 4
    /\ line = 2
    /\ column = 2
    /\ stdout = <<LF>>

\* A letter, a digit or '_'.
IsIdentByte(c) ==
    \/ (c >= 97 /\ c <= 122)
    \/ (c >= 65 /\ c <= 90)
    \/ (c >= 48 /\ c <= 57)
    \/ c = UNDERSCORE

\* Space, tab, newline, carriage return, form feed, or ASCII punctuation
\* other than '_'.
IsRunTerminator(c) ==
    \/ c \in {SPACE, TAB, LF, 13, 12}
    \/ (is_ascii_punctuation(c) /\ c # UNDERSCORE)

\* The offset after the maximal run of letters, digits and '_' of b that
\* starts at offset s.
RunEnd(b, s) ==
    LET q == {j \in s..(Len(b) - 1) : ~IsIdentByte(At(b, j))}
    IN IF q = {} THEN Len(b) ELSE CHOOSE j \in q : \A k \in q : j <= k

\* C14: an identifier whose maximal run of letters, digits and '_' is
\* followed by a terminator byte or by the end of the buffer gives one
\* Identifier token whose lexeme is that run and whose location is the
\* cursor's at the run's first byte; index and column advance by the length
\* of the run, line does not change, and the terminator is not consumed.
C14_Identifier ==
    /\ [][(pc = "parse" /\ pc' = "identifier")
             => /\ IsIdentStart(At(bytes, index))
                /\ UNCHANGED <<index, line, column, tokens>>]_vars
    /\ [][(/\ pc = "identifier"
           /\ LET e == RunEnd(bytes, index)
              IN e = Len(bytes) \/ IsRunTerminator(At(bytes, e)))
             => LET e == RunEnd(bytes, index) IN
                /\ pc' \in {"identifier", "parse"}
                /\ pc' = "identifier" =>
                      /\ frame.index < e
                      /\ UNCHANGED <<index, line, column, tokens>>
                /\ pc' = "parse" =>
                      /\ index' = e
                      /\ tokens' = Append(tokens,
                            Token(line, column, "Identifier",
                                  Slice(bytes, index, e)))
                      /\ column' = column + (e - index)
                      /\ line' = line]_vars

\* The scan of "foo_bar123;" has ended with the Identifier foo_bar123 and
\* the Operator ';'.
C14_Witness ==
    /\ pc = "done"
    /\ bytes = <<102, 111, 111, UNDERSCORE, 98, 97, 114, 49, 50, 51, 59>>
    /\ tokens = <<Token(1, 1, "Identifier", Slice(bytes, 0, 10)),
                  Token(1, 11, "Operator(OpEq)", <<59>>)>>

\* A digit or a letter a-f or A-F.
IsHexByte(c) ==
    \/ (c >= 48 /\ c <= 57)
    \/ (c >= 97 /\ c <= 102)
    \/ (c >= 65 /\ c <= 70)

\* A byte that ends a numeric run: space, tab, newline, carriage return,
\* form feed or ASCII punctuation.
IsNumberTerminator(c) ==
    \/ c \in {SPACE, TAB, LF, 13, 12}
    \/ is_ascii_punctuation(c)

\* The first offset of b at or after s whose byte is not in the set given by
\* the predicate In (Len(b) if none).
EndOf(b, s, In(_)) ==
    LET q == {j \in s..(Len(b) - 1) : ~In(At(b, j))}
    IN IF q = {} THEN Len(b) ELSE CHOOSE j \in q : \A k \in q : j <= k

\* At offset s of b there is "0x" or "0X" followed by digits and letters
\* a-f, A-F only, up to a terminator or the end of the buffer.
HexRun(b, s) ==
    /\ s + 1 < Len(b)
    /\ At(b, s) = 48
    /\ At(b, s + 1) \in {120, 88}
    /\ LET e == EndOf(b, s + 2, IsHexByte)
       IN e = Len(b) \/ IsNumberTerminator(At(b, e))

\* C15: a numeric run that starts with "0x" or "0X" is classified as hex;
\* any digits and letters a-f, A-F after the prefix are accepted without an
\* error, and at the terminator or the end of the buffer that follows them
\* exactly one NumberLiteral token is emitted whose lexeme is the whole run,
\* located at the cursor's line and column at the run's first byte.
C15_Hex ==
    /\ [](pc = "number" /\ HexRun(bytes, index) =>
            /\ frame.start = index
            /\ ~frame.err_token
            /\ frame.index >= index + 2 =>
                  (frame.hex_num /\ ~frame.oct_num /\ ~frame.bin_num))
    /\ [][(pc = "number" /\ HexRun(bytes, index))
             => LET e == EndOf(bytes, index + 2, IsHexByte) IN
                /\ pc' \in {"number", "parse"}
                /\ pc' = "number" =>
                      /\ frame.index < e
                      /\ UNCHANGED <<index, line, column, tokens>>
                /\ pc' = "parse" =>
                      /\ index' = e
                      /\ tokens' = Append(tokens,
                            Token(line, column, "Number",
                                  Slice(bytes, index, e)))]_vars

\* The scan of "0x1A3f " has ended with the NumberLiteral 0x1A3f and the
\* Whitespace after it.
C15_Witness ==
    /\ pc = "done"
    /\ bytes = <<48, 120, 49, 65, 51, 102, SPACE>>
    /\ tokens = <<Token(1, 1, "Number", Slice(bytes, 0, 6)),
                  Token(1, 7, "Space", <<SPACE>>)>>

\* 'b' or 'B'.
IsB(c) == c \in {98, 66}

\* '0' or '1'.
IsBinByte(c) == c \in {48, 49}

\* At offset s of b there is "0b" or "0B" followed by digits 0 and 1 only,
\* up to a terminator or the end of the buffer.
BinRun(b, s) ==
    /\ s + 1 < Len(b)
    /\ At(b, s) = 48
    /\ IsB(At(b, s + 1))
    /\ LET e == EndOf(b, s + 2, IsBinByte)
       IN e = Len(b) \/ IsNumberTerminator(At(b, e))

\* A numeric run "0b" or "0B" followed by digits 0 and 1 only gives one
\* NumberLiteral token whose lexeme is the whole run.
BinaryAccepted ==
    [][(pc = "number" /\ BinRun(bytes, index))
          => LET e == EndOf(bytes, index + 2, IsBinByte) IN
             /\ pc' \in {"number", "parse"}
             /\ pc' = "number" =>
                   /\ frame.index < e
                   /\ frame.index >= index + 2 => frame.bin_num
                   /\ UNCHANGED <<index, line, column, tokens>>
             /\ pc' = "parse" =>
                   /\ index' = e
                   /\ tokens' = Append(tokens,
                         Token(line, column, "Number",
                               Slice(bytes, index, e)))]_vars

\* The numeric scanner is at a 'b' or 'B' of a run classified binary, octal
\* or decimal, that is not the byte right after a lone leading '0'.
AtStrayB ==
    /\ pc = "number"
    /\ frame.index < Len(bytes)
    /\ IsB(At(bytes, frame.index))
    /\ frame.bin_num \/ frame.oct_num \/ frame.dec_num
    /\ ~(frame.index = index + 1 /\ At(bytes, index) = 48)

\* The step is a fatal error of the numeric scanner at the byte it is at: no
\* token, no byte taken.
FatalHere ==
    /\ pc' = "exit"
    /\ status' # 0
    /\ Len(stderr') = 1
    /\ UNCHANGED <<index, tokens>>

\* C16 as stated: "0b" followed by digits 0 and 1 gives one NumberLiteral
\* token, and a 'b' or 'B' at any other position of a binary, octal or
\* decimal run is an immediate fatal error.
C16_StrayBAlwaysFatal ==
    /\ BinaryAccepted
    /\ [][AtStrayB => FatalHere]_vars

\* C16, amended: "0b" followed by digits 0 and 1 gives one NumberLiteral
\* token; a 'b' or 'B' at any other position of a binary, octal or decimal
\* run is an immediate fatal error as long as the run has not been marked
\* malformed, and once it has been, the 'b' is passed over without an error.
C16_Binary ==
    /\ BinaryAccepted
    /\ [][(AtStrayB /\ ~frame.err_token) => FatalHere]_vars
    /\ [][(AtStrayB /\ frame.err_token)
             => /\ pc' = "number"
                /\ frame'.index = frame.index + 1
                /\ UNCHANGED <<index, tokens, stderr, status>>]_vars

\* The scan of "00b" has failed at the 'b' of an octal run.
C16_Witness ==
    /\ pc = "exit"
    /\ bytes = <<48, 48, 98>>
    /\ frame.index = 2
    /\ stderr = <<[msg |-> OctalOverflow, line |-> 1, column |-> 3]>>

\* The numeric scanner is at a digit that is out of range for the base of
\* the run: 8 or 9 in a run classified octal, 2 to 9 in one classified
\* binary.
AtOverflowDigit ==
    /\ pc = "number"
    /\ frame.index < Len(bytes)
    /\ LET chr == At(bytes, frame.index) IN
       \/ frame.oct_num /\ chr \in 56..57
       \/ frame.bin_num /\ chr \in 50..57

\* The step reports the overflow of the base of the run at the digit the
\* scanner is at: the column in the error is the cursor's column at the
\* run's first byte plus the offset of the digit in the run.
OverflowReported ==
    /\ FatalHere
    /\ stderr'[1].msg = (IF frame.bin_num THEN BinaryOverflow ELSE OctalOverflow)
    /\ stderr'[1].line = line
    /\ stderr'[1].column = column + (frame.index - index)

\* C17 as stated: a digit out of range for the base of the run is a fatal
\* error at that digit, whatever came before it in the run.
C17_OverflowAlwaysImmediate ==
    [][AtOverflowDigit => OverflowReported]_vars

\* C17, amended: a digit out of range for the base of the run is a fatal
\* error at that digit, raised before any later byte is examined and with
\* no token emitted, when neither the float nor the malformed flag of the
\* run is set; the column in the error is that of the digit, not of the
\* run's start.  When one of the two flags is set the digit raises no
\* error: the run is (or stays) marked malformed and goes on.
C17_Overflow ==
    /\ [][(AtOverflowDigit /\ ~frame.err_token /\ ~frame.f_flag)
             => OverflowReported]_vars
    /\ [][(AtOverflowDigit /\ (frame.err_token \/ frame.f_flag))
             => /\ pc' = "number"
                /\ frame'.err_token
                /\ frame'.index = frame.index + 1
                /\ UNCHANGED <<index, tokens, stderr, status>>]_vars

\* The scan of "089 " has failed at the '8', column 2, with the bytes after
\* it not examined.
C17_Witness ==
    /\ pc = "exit"
    /\ bytes = <<48, 56, 57, SPACE>>
    /\ frame.index = 1
    /\ tokens = <<>>
    /\ stderr = <<[msg |-> OctalOverflow, line |-> 1, column |-> 2]>>

\* 'x' or 'X'.
IsX(c) == c \in {120, 88}

\* The numeric scanner is at a byte that marks the run malformed: an 'x' or
\* 'X' that is not right after a lone leading '0', or a byte that is neither
\* a digit, a letter a-f or A-F, 'x', 'X' nor a terminator.
AtMalformingByte ==
    /\ pc = "number"
    /\ frame.index < Len(bytes)
    /\ LET chr == At(bytes, frame.index) IN
       \/ IsX(chr) /\ ~(frame.index = index + 1 /\ At(bytes, index) = 48)
       \/ ~IsHexByte(chr) /\ ~IsX(chr) /\ ~IsNumberTerminator(chr)

\* The numeric scanner is at the end of the run: at a terminator or at the
\* end of the buffer.
AtRunEnd ==
    /\ pc = "number"
    /\ frame.index = Len(bytes) \/ IsNumberTerminator(At(bytes, frame.index))

\* C18: a byte that marks the run malformed sets the malformed flag and
\* raises no error; once the flag is set no byte of the run raises an error
\* or gives a token: the scanner goes on, with the flag set, to the
\* terminator or the end of the buffer, and fails there with the error of
\* an identifier that starts with a digit, at the cursor's line and column.
C18_Deferred ==
    /\ [][AtMalformingByte
             => /\ pc' = "number"
                /\ frame'.err_token
                /\ frame'.index = frame.index + 1
                /\ UNCHANGED <<index, tokens, stderr, status>>]_vars
    /\ [][(pc = "number" /\ frame.err_token /\ ~AtRunEnd)
             => /\ pc' = "number"
                /\ frame'.err_token
                /\ frame'.index = frame.index + 1
                /\ UNCHANGED <<index, tokens, stderr, status>>]_vars
    /\ [][(frame.err_token /\ AtRunEnd)
             => /\ FatalHere
                /\ stderr' = <<[msg |-> StartsWithNumber,
                               line |-> line, column |-> column]>>]_vars
    /\ [](pc = "exit" /\ frame.err_token => stderr[1].msg = StartsWithNumber)

\* The scan of "0g8 " has failed at the space: the 8 after the g raised no
\* octal overflow.
C18_Witness ==
    /\ pc = "exit"
    /\ bytes = <<48, 103, 56, SPACE>>
    /\ frame.index = 3
    /\ frame.err_token
    /\ tokens = <<>>
    /\ stderr = <<[msg |-> StartsWithNumber, line |-> 1, column |-> 1]>>

\* The tokens of toks whose kind is not Comment, Newline or Whitespace, in
\* order.
Kept(toks) ==
    LET keep(t) == t.token_type \notin {"Note", "NewLine", "Space"}
    IN SelectSeq(toks, keep)

\* The line of the dump for the token tok:
\* '<lexeme>' [<kind>] Loc:(<file>:<line>:<column>)
DumpLine(tok) ==
    <<SQUOTE>> \o tok.source \o <<SQUOTE, SPACE, 91>>
        \o DebugType(tok.token_type) \o <<93, SPACE>>
        \o <<76, 111, 99, 58, 40>>
        \o File \o <<58>> \o Decimal(tok.line) \o <<58>> \o Decimal(tok.column)
        \o <<41>>

\* The lines of the tokens q with one '\n' between consecutive lines and
\* none after the last.
RECURSIVE JoinLines(_)
JoinLines(q) ==
    IF q = <<>> THEN <<>>
    ELSE IF Len(q) = 1 THEN DumpLine(q[1])
    ELSE DumpLine(q[1]) \o <<LF>> \o JoinLines(Tail(q))

\* C19: the dump of a completed scan, which main prints with println!, is
\* one line per token whose kind is not Comment, Newline or Whitespace, in
\* the order of the tokens, each of the form
\* '<lexeme>' [<kind>] Loc:(<file>:<line>:<column>), with one '\n' between
\* consecutive lines and none after the last; it is the empty string when
\* no token has such a kind.
C19_Dump ==
    /\ pc = "done" => stdout = <<>>
    /\ pc = "end" =>
          /\ stdout = JoinLines(Kept(tokens)) \o <<LF>>
          /\ Kept(tokens) = <<>> => stdout = <<LF>>

\* The scan of "a 1" has ended and main has printed the line of the
\* Identifier and the line of the NumberLiteral.
C19_Witness ==
    /\ pc = "end"
    /\ bytes = <<97, SPACE, 49>>
    /\ Len(tokens) = 3
    /\ stdout = DumpLine(Token(1, 1, "Identifier", <<97>>)) \o <<LF>>
                    \o DumpLine(Token(1, 3, "Number", <<49>>)) \o <<LF>>

\* The option cmd is given by the argument arg: arg is its short or long
\* name, or, for an option whose value is attached, begins with the whole of
\* its short or long name.
GivenBy(cmd, arg) ==
    \E name \in {cmd.short, cmd.long} :
        /\ name # <<>>
        /\ IF cmd.val_type \in {"NoVal", "ValSpace"}
           THEN arg = name
           ELSE /\ Len(name) <= Len(arg)
                /\ SubSeq(arg, 1, Len(name)) = name

\* The argument arg gives a registered option.
IsOptionArg(arg) == \E k \in 1..Len(Info) : GivenBy(Info[k], arg)

\* The option that arg gives takes the next argument as its value.
AwaitsValue(arg) ==
    \E k \in 1..Len(Info) :
        /\ GivenBy(Info[k], arg)
        /\ \/ Info[k].val_type = "ValSpace"
           \/ Info[k].val_type = "ValOptSpace" /\ arg \in {Info[k].short, Info[k].long}

\* The arguments of argv, in order, that neither give a registered option nor
\* are the value of the option before them; awaited tells whether the first
\* one is such a value.
RECURSIVE Positional(_, _)
Positional(argv, awaited) ==
    IF argv = <<>> THEN <<>>
    ELSE IF awaited THEN Positional(Tail(argv), FALSE)
    ELSE IF IsOptionArg(Head(argv)) THEN Positional(Tail(argv), AwaitsValue(Head(argv)))
    ELSE <<Head(argv)>> \o Positional(Tail(argv), FALSE)

\* C20: when CmdLine::parse has returned, others holds, in the order of the
\* command line, exactly the arguments that neither give a registered
\* option nor were taken as the value of an option, where an argument gives
\* an option with an attached value only if it begins with the whole of the
\* option's short or long name.
C20_Others ==
    pc = "cmd_done" => others = Positional(args, FALSE)

\* The position in Info (from 1) of the option whose short or long name is
\* the argument arg and that takes the next argument as its value (ValSpace,
\* or ValOptSpace with nothing attached); 0 if there is none.
ValueOption(arg) ==
    LET m == {k \in 1..Len(Info) :
                 /\ Info[k].val_type \in {"ValSpace", "ValOptSpace"}
                 /\ arg # <<>>
                 /\ arg \in {Info[k].short, Info[k].long}}
    IN IF m = {} THEN 0 ELSE CHOOSE k \in m : TRUE

\* The values of the option i in the map of self.args (none when the option
\* is not in the map).
ValuesOf(map, i) == IF i \in DOMAIN map THEN map[i] ELSE <<>>

\* The error that CmdLine::parse reports for the option at position k of
\* Info.
MissingValue(k) ==
    [msg |-> "Missing value.",
     name |-> IF Info[k].short # <<>> THEN Info[k].short ELSE Info[k].long]

\* C21: when parse, not awaiting a value, takes an argument that is the name
\* of an option whose value is the next argument, it then awaits a value
\* for that option and stores nothing; the argument it takes while awaiting
\* is appended to the values of that option, after those it already has,
\* whatever the argument is (the name of an option too), and is not added
\* to others; and when the arguments end while a value is awaited, parse
\* exits with a non-zero status and the error of the missing value.
C21_NextArgument ==
    /\ [][(/\ pc = "cmdline" /\ argi < Len(args) /\ ~get_valne
           /\ ValueOption(args[argi + 1]) # 0)
             => /\ get_valne'
                /\ cmd_index' = ValueOption(args[argi + 1]) - 1
                /\ argi' = argi + 1
                /\ UNCHANGED <<cmd_args, others, pc, stderr, status>>]_vars
    /\ [][(pc = "cmdline" /\ argi < Len(args) /\ get_valne)
             => /\ ~get_valne'
                /\ argi' = argi + 1
                /\ DOMAIN cmd_args' = DOMAIN cmd_args \cup {cmd_index}
                /\ cmd_args'[cmd_index] =
                      Append(ValuesOf(cmd_args, cmd_index), args[argi + 1])
                /\ \A k \in DOMAIN cmd_args :
                      k # cmd_index => cmd_args'[k] = cmd_args[k]
                /\ UNCHANGED <<others, pc, stderr, status>>]_vars
    /\ [][(pc = "cmdline" /\ argi = Len(args) /\ get_valne)
             => /\ pc' = "exit"
                /\ status' # 0
                /\ stderr' = <<MissingValue(cmd_index + 1)>>
                /\ UNCHANGED <<cmd_args, others>>]_vars
    /\ [](pc = "cmd_done" => ~get_valne)

\* parse has returned from "-Dx" "-D" "-v": the values of -D are "x" and
\* then "-v", which was not taken as the option -v, and others is empty.
C21_Witness ==
    /\ pc = "cmd_done"
    /\ args = <<<<45, 68, 120>>, <<45, 68>>, <<45, 118>>>>
    /\ cmd_args = (3 :> <<<<120>>, <<45, 118>>>>)
    /\ others = <<>>

\* A sub-scanner with a loop of its own is running.
InScanner ==
    pc \in {"note_block", "note_line", "string", "char", "identifier", "number"}

\* The cursor index at the start of the dispatch step that is under way:
\* the sub-scanner that is running keeps it in start.
StepStart == IF InScanner THEN frame.start ELSE index

\* C22: the tokens are only appended to, at most one in a step; a token is
\* appended at the end of a dispatch step, its byte range runs from the
\* cursor index at the start of that step to the cursor index after it and
\* is not empty, and the cursor index never decreases, so that the range of
\* a token begins at or after the end of the range of the token before it.
C22_AppendOnly ==
    /\ [][\/ tokens' = tokens
          \/ /\ Len(tokens') = Len(tokens) + 1
             /\ SubSeq(tokens', 1, Len(tokens)) = tokens
             /\ pc' = "parse"
             /\ StepStart < index'
             /\ Last(tokens').source =
                   from_utf8_lossy(Slice(bytes, StepStart, index'))]_vars
    /\ [][index' >= index]_vars
    /\ [][(pc = "parse" /\ InScanner') => frame'.start = index]_vars
    /\ [][(InScanner /\ InScanner')
             => frame'.start = frame.start /\ tokens' = tokens]_vars
    /\ [](InScanner => frame.start <= index)

\* The scan of "a 1" has ended with three tokens, the last of which ends
\* at the end of the buffer.
C22_Witness ==
    /\ pc = "done"
    /\ bytes = <<97, SPACE, 49>>
    /\ Len(tokens) = 3
    /\ tokens[3].source = <<49>>
    /\ index = 3

\* The numeric scanner is at one of the letters a, c, d, e, in either case.
AtHexLetter ==
    /\ pc = "number"
    /\ frame.index < Len(bytes)
    /\ At(bytes, frame.index) \in {97, 99, 100, 101, 65, 67, 68, 69}

\* One of the flags binary, octal, decimal of the run is set.
BaseActive == frame.bin_num \/ frame.oct_num \/ frame.dec_num

\* The step reports the overflow of the base that is active, at the byte
\* the scanner is at.
BaseOverflowReported ==
    /\ FatalHere
    /\ stderr'[1] =
          [msg |-> IF frame.bin_num THEN BinaryOverflow
                   ELSE IF frame.oct_num THEN OctalOverflow
                   ELSE DecimalOverflow,
           line |-> line,
           column |-> column + (frame.index - index)]

\* A letter a, c, d, e in a binary, octal or decimal run with neither the
\* float nor the malformed flag set is a fatal overflow error at that byte;
\* and the letter leaves the run going on and not malformed only when hex
\* is active.
LetterOverflows ==
    /\ [][(AtHexLetter /\ BaseActive /\ ~frame.f_flag /\ ~frame.err_token)
             => BaseOverflowReported]_vars
    /\ [][(AtHexLetter /\ pc' = "number" /\ ~frame'.err_token)
             => frame.hex_num /\ frame' = [frame EXCEPT !.index = @ + 1,
                                                        !.column = @ + 1]]_vars

\* C23 as stated: ..., and the letter sets the malformed flag only when no
\* base is active.
C23_FlagOnlyWithoutBase ==
    /\ LetterOverflows
    /\ [][(AtHexLetter /\ ~frame.err_token /\ frame'.err_token)
             => ~BaseActive /\ ~frame.hex_num]_vars

\* C23, amended: ..., and the letter sets the malformed flag, without an
\* error, when the float flag of the run is set (the run is then binary,
\* octal or decimal) and in no other reachable case.
C23_HexLetter ==
    /\ LetterOverflows
    /\ [][(AtHexLetter /\ ~frame.err_token /\ frame'.err_token)
             => frame.f_flag /\ BaseActive]_vars
    /\ [][(AtHexLetter /\ ~frame.err_token /\ frame.f_flag)
             => /\ pc' = "number"
                /\ frame'.err_token
                /\ UNCHANGED <<index, tokens, stderr, status>>]_vars

\* The scan of "1a" has failed at the 'a', column 2, with the overflow of
\* the decimal run.
C23_Witness ==
    /\ pc = "exit"
    /\ bytes = <<49, 97>>
    /\ frame.index = 1
    /\ tokens = <<>>
    /\ stderr = <<[msg |-> DecimalOverflow, line |-> 1, column |-> 2]>>

\* 'f' or 'F'.
IsF(c) == c \in {102, 70}

\* The numeric scanner, in a run that is not hex, is at an 'f' or 'F' that
\* directly follows a digit.
AtFloatF ==
    /\ pc = "number"
    /\ frame.index < Len(bytes)
    /\ IsF(At(bytes, frame.index))
    /\ ~frame.hex_num
    /\ frame.index > index
    /\ is_ascii_digit(At(bytes, frame.index - 1))

\* The step leaves the run going on, without an error or a token.
RunGoesOn ==
    /\ pc' = "number"
    /\ frame'.index = frame.index + 1
    /\ UNCHANGED <<index, tokens, stderr, status>>

\* A digit, 'f' or 'F' after the float flag has been set raises an error at
\* once or marks the run malformed, and a run marked malformed never gives
\* a token: it can only go on or fail.
NothingAfterFloat ==
    /\ [][(/\ pc = "number" /\ frame.f_flag /\ ~frame.err_token
           /\ frame.index < Len(bytes)
           /\ \/ is_ascii_digit(At(bytes, frame.index))
              \/ IsF(At(bytes, frame.index)))
             => /\ tokens' = tokens
                /\ \/ FatalHere
                   \/ RunGoesOn /\ frame'.err_token]_vars
    /\ [][(pc = "number" /\ frame.err_token)
             => tokens' = tokens /\ pc' \in {"number", "exit"}]_vars

\* C24 as stated: in a run that is not hex, an 'f' or 'F' directly after a
\* digit sets the float flag without an error, and at a terminator or the
\* end of the buffer after it the run with the 'f' is emitted as one Number
\* token; a further digit, 'f' or 'F' makes the scan fail.
C24_FloatAlwaysSet ==
    /\ NothingAfterFloat
    /\ [][(AtFloatF /\ ~frame.f_flag) => RunGoesOn /\ frame'.f_flag]_vars
    /\ [][(AtRunEnd /\ frame.index > index /\ IsF(At(bytes, frame.index - 1))
           /\ ~frame.hex_num /\ frame.index > index + 1
           /\ is_ascii_digit(At(bytes, frame.index - 2)))
             => /\ pc' = "parse"
                /\ tokens' = Append(tokens,
                      Token(line, column, "Number",
                            Slice(bytes, index, frame.index)))]_vars

\* C24, amended: in a run that is not hex and not marked malformed, the
\* first 'f' or 'F' directly after a digit sets the float flag without an
\* error; at a terminator or the end of the buffer right after it the run
\* with the 'f' is emitted as one token of kind Number; a digit, 'f' or 'F'
\* after it raises an error at once or marks the run malformed, and a run
\* marked malformed never gives a token.
C24_Float ==
    /\ [][(AtFloatF /\ ~frame.f_flag /\ ~frame.err_token)
             => RunGoesOn /\ frame'.f_flag /\ ~frame'.err_token]_vars
    /\ [](pc = "number" /\ frame.f_flag =>
            \E j \in index..(frame.index - 1) : IsF(At(bytes, j)))
    /\ [][(AtRunEnd /\ frame.f_flag /\ ~frame.err_token)
             => /\ pc' = "parse"
                /\ index' = frame.index
                /\ tokens' = Append(tokens,
                      Token(line, column, "Number",
                            Slice(bytes, index, frame.index)))]_vars
    /\ NothingAfterFloat

\* The scan of "1f " has ended with the Number 1f and the Whitespace.
C24_Witness ==
    /\ pc = "done"
    /\ bytes = <<49, 102, SPACE>>
    /\ tokens = <<Token(1, 1, "Number", <<49, 102>>),
                  Token(1, 3, "Space", <<SPACE>>)>>

\* ---------------------------------------------------------------------- C25
\* A control byte other than tab, line feed, form feed and carriage return,
\* DEL, or a byte of 0x80 and above.
IsInvalidInIdentifier(c) ==
    \/ (c < 32 /\ c \notin {TAB, LF, 12, 13})
    \/ c = 127
    \/ c >= 128

\* The scan is in an identifier and the byte it looks at is invalid.
AtInvalidInIdentifier ==
    /\ pc = "identifier"
    /\ frame.index < Len(bytes)
    /\ IsInvalidInIdentifier(At(bytes, frame.index))

\* C25: the bytes that are neither letter, digit, '_' nor terminator are
\* the control bytes other than tab, LF, FF and CR, DEL and the bytes of
\* 0x80 and above; inside an identifier the cursor stays at the start of
\* the identifier; at such a byte the scan ends with the fatal error
\* "cannot be an identifier", no token is pushed for the run read so far and
\* the index and the column of the cursor stay at the start of the
\* identifier; the error is raised at no other byte.
C25_InvalidByte ==
    /\ [](pc = "identifier"
            => /\ index = frame.start
               /\ \A c \in 0..255 :
                    IsInvalidInIdentifier(c)
                        <=> ~(IsIdentByte(c) \/ IsRunTerminator(c)))
    /\ [][AtInvalidInIdentifier
            => /\ pc' = "exit"
               /\ status' = 255
               /\ stderr' = <<[msg |-> "cannot be an identifier",
                               line |-> line, column |-> column]>>
               /\ tokens' = tokens
               /\ index' = index
               /\ column' = column]_vars
    /\ [][(/\ stderr = <<>>
           /\ stderr' # <<>>
           /\ stderr'[1].msg = "cannot be an identifier")
            => AtInvalidInIdentifier]_vars

\* The scan of "a_" DEL has ended with the error at the start of the
\* identifier and without a token.
C25_Witness ==
    /\ pc = "exit"
    /\ bytes = <<97, UNDERSCORE, 127>>
    /\ tokens = <<>>
    /\ index = 0
    /\ column = 1
    /\ stderr = <<[msg |-> "cannot be an identifier", line |-> 1, column |-> 1]>>

\* ---------------------------------------------------------------------- C26
\* The token is an Operator token, of whatever sub-kind.
IsOperatorToken(t) ==
    t.token_type \in {"Operator(OpEq)", "Operator(OpAssign)"}

\* C26: every Operator token has a lexeme of one byte of ASCII punctuation
\* and the sub-kind OpEq; the step that pushes an Operator token pushes that
\* one token, for the byte at the cursor and at the location of the cursor,
\* and moves the index and the column by one and leaves the line; a step
\* at '=' pushes the Operator token of that one byte, so that "==" gives two
\* Operator tokens.
C26_Operator ==
    /\ [](\A k \in 1..Len(tokens) :
            IsOperatorToken(tokens[k])
                => /\ tokens[k].token_type = "Operator(OpEq)"
                   /\ Len(tokens[k].source) = 1
                   /\ is_ascii_punctuation(tokens[k].source[1]))
    /\ [][(/\ Len(tokens') > Len(tokens)
           /\ IsOperatorToken(tokens'[Len(tokens')]))
            => /\ tokens' = Append(tokens, Token(line, column, "Operator(OpEq)",
                                                 <<At(bytes, index)>>))
               /\ index' = index + 1
               /\ column' = column + 1
               /\ line' = line]_vars
    /\ [][(pc = "parse" /\ index < Len(bytes) /\ At(bytes, index) = 61)
            => /\ tokens' = Append(tokens, Token(line, column, "Operator(OpEq)",
                                                 <<61>>))
               /\ index' = index + 1]_vars
    /\ []((pc = "done" /\ bytes = <<61, 61>>)
            => tokens = <<Token(1, 1, "Operator(OpEq)", <<61>>),
                          Token(1, 2, "Operator(OpEq)", <<61>>)>>)

\* The scan of "==" has ended with two Operator tokens.
C26_Witness ==
    /\ pc = "done"
    /\ bytes = <<61, 61>>
    /\ Len(tokens) = 2
    /\ \A k \in 1..2 : IsOperatorToken(tokens[k]) /\ tokens[k].source = <<61>>

\* ---------------------------------------------------------------------- C27
\* The scan is over: the process has exited with an error, or the while loop
\* of parse has ended at the end of the buffer.
ScanOver ==
    \/ pc = "exit"
    \/ pc \in {"done", "end"} /\ index >= Len(bytes)

\* The offset that the scan reads next: the local index of the scanners of
\* identifiers and numbers, the index of the cursor otherwise.
Position == IF pc \in {"identifier", "number"} THEN frame.index ELSE index

\* C27: every scan comes to the end of the input or to a fatal error; every
\* iteration of the while loop of parse that ends without an error leaves
\* the index of the cursor greater than it found it; every iteration of the
\* loop of a scanner that does not end the scanner moves the offset it
\* reads forward, and that offset never leaves the buffer.
C27_Terminates ==
    /\ <>ScanOver
    /\ [](InScanner \/ pc = "parse" => Position <= Len(bytes))
    /\ [][((pc = "parse" \/ InScanner) /\ pc' = "parse")
            => index' > StepStart]_vars
    /\ [][(InScanner /\ pc' = pc) => Position' > Position]_vars
    /\ [][(pc = "parse" /\ InScanner') => Position' >= index /\ frame'.start = index]_vars

\* The scan of "0x1A3f " has come to the end of the buffer.
C27_Witness ==
    /\ pc = "done"
    /\ bytes = <<48, 120, 49, 65, 51, 102, SPACE>>
    /\ index = 7
    /\ Len(tokens) = 2

\* ---------------------------------------------------------------------- C28
\* The scan is inside a string or a char literal.
InLiteral == pc \in {"string", "char"}

\* The quote that closes the literal under way.
Quote == IF pc = "string" THEN DQUOTE ELSE SQUOTE

\* The scanner of the literal is about to process a quote.
AtQuote ==
    /\ InLiteral
    /\ index < Len(bytes)
    /\ pc = "char" => index <= frame.max
    /\ At(bytes, index) = Quote

\* The literal under way ends at the quote at index with its token.
Terminates ==
    /\ pc' = "parse"
    /\ index' = index + 1
    /\ tokens' = Append(tokens,
                    Token(line, column, IF pc = "string" THEN "Str" ELSE "Char",
                          Source(bytes, frame.start, index + 1)))

\* C28: in the string and the char scanner the escape flag is set exactly
\* when the byte before the one at the cursor is a backslash, and after a
\* byte has been processed exactly when that byte is a backslash, whether
\* or not the flag was set before it; a quote that the scanner comes to
\* ends the literal if and only if the byte before it is not a backslash,
\* and the scan of the literal goes on otherwise; no token is the literal
\* "\\" or '\\', the quote after the two backslashes ending nothing.
C28_EscapeFlag ==
    /\ [](InLiteral
            => /\ index > frame.start
               /\ frame.skip <=> At(bytes, index - 1) = BACKSLASH)
    /\ [][(InLiteral /\ pc' = pc)
            => frame'.skip = (At(bytes, index) = BACKSLASH)]_vars
    /\ [][AtQuote
            => IF At(bytes, index - 1) # BACKSLASH
               THEN Terminates
               ELSE pc' = pc /\ index' = index + 1 /\ tokens' = tokens]_vars
    /\ [](\A k \in 1..Len(tokens) :
            tokens[k].source \notin
                {<<DQUOTE, BACKSLASH, BACKSLASH, DQUOTE>>,
                 <<SQUOTE, BACKSLASH, BACKSLASH, SQUOTE>>})

\* The scan of "\\"a" has ended: the quote after the two backslashes did
\* not end the literal, the one after the a did.
C28_Witness ==
    /\ pc = "done"
    /\ bytes = <<DQUOTE, BACKSLASH, BACKSLASH, DQUOTE, 97, DQUOTE>>
    /\ tokens = <<Token(1, 1, "Str", bytes)>>

\* ---------------------------------------------------------------------- C29
\* C29: the index of the cursor and the local index of the scanners of
\* identifiers and numbers are between 0 and the length of the buffer, and
\* every offset at which the step of the state reads the buffer is between
\* 0 and the length less one: the second byte of "/*", "//" and "*/" and
\* the byte before an 'f' of a number are among them.
C29_InBounds ==
    /\ 0 <= index
    /\ index <= Len(bytes)
    /\ pc \in {"identifier", "number"}
        => /\ frame.start <= frame.index
           /\ frame.index <= Len(bytes)
    /\ \A r \in Reads : 0 <= r /\ r < Len(bytes)

\* The scan is in the comment "/**" at its last byte, a '*' with nothing
\* after it: the buffer is not read there.
C29_Witness ==
    /\ pc = "note_block"
    /\ bytes = <<SLASH, STAR, STAR>>
    /\ index = 2
    /\ Reads = {}

\* ---------------------------------------------------------------------- C30
\* The base flags of f that are set.
Bases(f) ==
    {n \in {"bin", "oct", "hex", "dec"} :
        \/ n = "bin" /\ f.bin_num
        \/ n = "oct" /\ f.oct_num
        \/ n = "hex" /\ f.hex_num
        \/ n = "dec" /\ f.dec_num}

\* The run of a number is past its first byte and not marked malformed.
PastFirst ==
    /\ pc = "number"
    /\ frame.index > frame.start
    /\ ~frame.err_token

\* C30: in a number past its first byte and not marked malformed exactly
\* one base flag is set; the first byte sets octal when it is '0' and
\* decimal when it is '1' to '9'; afterwards the base changes only from
\* octal to hex or to binary, at the second byte; so a hex letter or a 'b'
\* that the scanner comes to with the malformed flag clear finds a base
\* set.
C30_OneBase ==
    /\ [](PastFirst => Cardinality(Bases(frame)) = 1)
    /\ []((pc = "number" /\ frame.index = frame.start) => Bases(frame) = {})
    /\ [][(pc = "number" /\ frame.index = frame.start /\ pc' = "number")
            => Bases(frame') = IF At(bytes, frame.index) = 48
                               THEN {"oct"} ELSE {"dec"}]_vars
    /\ [][(PastFirst /\ pc' = "number" /\ Bases(frame') # Bases(frame))
            => /\ Bases(frame) = {"oct"}
               /\ Bases(frame') \in {{"hex"}, {"bin"}}
               /\ frame.index = frame.start + 1
               /\ Bases(frame') = IF IsX(At(bytes, frame.index))
                                  THEN {"hex"} ELSE {"bin"}]_vars
    /\ []((/\ pc = "number"
           /\ frame.index < Len(bytes)
           /\ ~frame.err_token
           /\ \/ AtHexLetter
              \/ IsB(At(bytes, frame.index)))
            => Bases(frame) # {})

\* The scan of "0x1 " is past the 'x': octal has given way to hex.
C30_Witness ==
    /\ pc = "number"
    /\ bytes = <<48, 120, 49, SPACE>>
    /\ frame.index = 2
    /\ Bases(frame) = {"hex"}
    /\ ~frame.err_token

\* ---------------------------------------------------------------------- C31
\* The lexeme of the empty char literal.
EmptyChar == <<SQUOTE, SQUOTE>>

\* At offset s of the buffer there are two quotes, and s is 0 or 1.
EmptyCharAt(s) ==
    /\ s \in {0, 1}
    /\ s + 1 < Len(bytes)
    /\ At(bytes, s) = SQUOTE
    /\ At(bytes, s + 1) = SQUOTE

\* C31: when the while loop of parse comes to two adjacent quotes at offset
\* 0 or 1 the char scanner is entered at the first, and its step at the
\* second ends the literal without an error: one Char token with the
\* lexeme '' is pushed with the location of the cursor and the index goes
\* past the two quotes.
C31_EmptyChar ==
    /\ [][(pc = "parse" /\ EmptyCharAt(index))
            => /\ pc' = "char"
               /\ frame'.start = index
               /\ index' = index + 1
               /\ UNCHANGED <<tokens, stderr, status>>]_vars
    /\ [][(pc = "char" /\ index = frame.start + 1 /\ EmptyCharAt(frame.start))
            => /\ pc' = "parse"
               /\ tokens' = Append(tokens, Token(line, column, "Char", EmptyChar))
               /\ index' = frame.start + 2
               /\ UNCHANGED <<stderr, status>>]_vars
    /\ []((pc = "done" /\ bytes = EmptyChar)
            => tokens = <<Token(1, 1, "Char", EmptyChar)>> /\ stderr = <<>>)

\* The scan of " ''" has ended without an error: the literal at offset 1
\* is the second token.
C31_Witness ==
    /\ pc = "done"
    /\ bytes = <<SPACE, SQUOTE, SQUOTE>>
    /\ stderr = <<>>
    /\ status = 0
    /\ tokens = <<Token(1, 1, "Space", <<SPACE>>), Token(1, 2, "Char", EmptyChar)>>

====
